---- MODULE Spec2Model ----
(***************************************************************************)
(* Deps-Harmony: dependency graph construction (GraphService), conflict    *)
(* detection (AnalyzerService), the registry client (NpmService) and the   *)
(* solution-description parser (FixService).                               *)
(*                                                                         *)
(* Strings are sequences of tokens.  A token is "/", "@", " " or a run of  *)
(* characters containing none of these, so that String.split("/"), the     *)
(* template literals and the regular expressions of the source are         *)
(* computed on the text and not assumed.  "" is the empty sequence; a      *)
(* missing string field (undefined) is also the empty sequence wherever    *)
(* the source only reads it through `x || default`, where both are falsy.  *)
(* A version is one token ("17.0.2"); semver parses it (SemverParse).      *)
(***************************************************************************)
EXTENDS Integers, Sequences, FiniteSets, TLC

VARIABLES
    packageJson,      \* the manifest document handed to buildGraph
    packageLockJson,  \* the lockfile document handed to buildGraph
    graph,            \* what GraphService.buildGraph returned or threw
    cache,            \* NpmService.cache: package name -> registry document
    scan,             \* the findConflicts call in progress: the cache it started with
                      \* and the results of its fetches so far
    conflicts,        \* what AnalyzerService.findConflicts resolved to, or that it rejected
    applied,          \* the last applySolution command: the solution and what was parsed
    previous,         \* the findConflicts call completed before the current one: its start cache and result
    calls,            \* the NpmService.getPackageInfo calls made directly, in call order
    suggest,          \* the suggestCompatiblePackages call: its request, fetches so far and result
    stats,            \* result of the last getGraphStats call
    fix,              \* the applySolution command and the applyDependencyFix call it makes
    audit,            \* the analyzeExistingPackages call in progress and its result
    typed,            \* the package list typed into suggestPackages and its parse
    pc                \* position of the scan: "start", "built", "analyzing", ...

vars == <<packageJson, packageLockJson, graph, cache, scan, conflicts, applied, pc, previous, calls, suggest, stats, fix, audit, typed>>

\* ------------------------------------------------------------------ bounds

\* Most lockfile entries (the root entry included) in a lockfile handed to buildGraph.
MaxPackages == 3

\* Most installed packages (entries besides the root) in a lockfile that is analyzed.
MaxInstalled == 3

\* The most entries, besides the root, of a lockfile of the ordering specification.
MaxOrdered == 6

\* Most installed packages in a lockfile that is scanned more than once.
MaxRescanned == 2

\* Most findConflicts calls on one graph.
MaxScans == 2

\* Most direct NpmService.getPackageInfo calls.
MaxCalls == 3

\* Most package names in a request to suggestCompatiblePackages.
MaxRequested == 3

\* The most applySolution commands in a behaviour, and the longest tail of a
\* generated solution description.
MaxFixes == 2
MaxTail == 4

\* The most entries of the dependencies object of an audited manifest.
MaxAudited == 2

\* The longest package list typed into the input box, in tokens.
MaxInput == 4

\* ------------------------------------------------------------------ strings

NM == "node_modules"

\* JavaScript String.prototype.split("/") on a token string.
RECURSIVE SplitAcc(_, _, _)
SplitAcc(s, cur, acc) ==
    IF s = <<>> THEN Append(acc, cur)
    ELSE IF Head(s) = "/" THEN SplitAcc(Tail(s), <<>>, Append(acc, cur))
    ELSE SplitAcc(Tail(s), Append(cur, Head(s)), acc)

Split(s) == SplitAcc(s, <<>>, <<>>)

\* JavaScript Array.prototype.join("/").
RECURSIVE Join(_)
Join(parts) ==
    IF Len(parts) = 0 THEN <<>>
    ELSE IF Len(parts) = 1 THEN parts[1]
    ELSE parts[1] \o <<"/">> \o Join(Tail(parts))

\* Array.prototype.slice(0, end).
Slice0(parts, end) == SubSeq(parts, 1, IF end > Len(parts) THEN Len(parts) ELSE end)

\* ------------------------------------------------------------------ Map / object

\* A Map<string, V> or a plain object: its entries in insertion order, keys
\* unique.  A PackageNode reference is the index of the node in the heap of
\* the nodes buildGraph allocated; 0 is null / undefined.
MapIndex(m, k) ==
    IF \E i \in 1..Len(m) : m[i].key = k
    THEN CHOOSE i \in 1..Len(m) : m[i].key = k
    ELSE 0

MapHas(m, k) == MapIndex(m, k) # 0

\* Map.prototype.get for a map of node references (0 when the key is absent).
MapGet(m, k) == IF MapHas(m, k) THEN m[MapIndex(m, k)].value ELSE 0

\* Map.prototype.set: replaces the value of an existing key in place, else appends.
MapSet(m, k, v) ==
    IF MapHas(m, k)
    THEN [m EXCEPT ![MapIndex(m, k)] = [key |-> k, value |-> v]]
    ELSE Append(m, [key |-> k, value |-> v])

\* Object.keys
RECURSIVE ObjectKeys(_)
ObjectKeys(o) == IF o = <<>> THEN <<>> ELSE <<Head(o).key>> \o ObjectKeys(Tail(o))

\* ------------------------------------------------------------------ GraphService

NoGraph == [status |-> "none", error |-> "", root |-> 0, allNodes |-> <<>>, nodes |-> <<>>]

Thrown(msg) == [status |-> "error", error |-> msg, root |-> 0, allNodes |-> <<>>, nodes |-> <<>>]

UnsupportedFormat == "Lockfile version 1 is not supported"
MissingRoot == "Root package not found in lockfile"

\* const packages = packageLockJson.packages || {}
PackagesOf(lock) == IF lock.hasPackages THEN lock.packages ELSE <<>>

\* Mutant of LockfileVersionOf: a missing version defaults to a supported one.
LockfileVersionDefaultsTo2(lock) ==
    IF lock.hasLockfileVersion /\ lock.lockfileVersion # 0 THEN lock.lockfileVersion ELSE 2

\* const lockfileVersion = packageLockJson.lockfileVersion || 1   (0 is falsy)
LockfileVersionOf(lock) ==
    IF lock.hasLockfileVersion /\ lock.lockfileVersion # 0 THEN lock.lockfileVersion ELSE 1

\* if (lockfileVersion < 2) throw
VersionRejected(lock) == LockfileVersionOf(lock) < 2

\* isDevDependency(packageName, packageJson, packagePath)
isDevDependency(packageName, pj, packagePath) ==
    IF Len(Split(packagePath)) = 2
    THEN MapHas(pj.devDependencies, packageName)
    ELSE FALSE

\* The root PackageNode (packagePath === "").
RootNodeOf(pj, data) ==
    [ name |-> IF pj.name = <<>> THEN <<"root">> ELSE pj.name,
      version |-> IF pj.version = "" THEN "0.0.0" ELSE pj.version,
      path |-> <<>>,
      isDev |-> FALSE,
      dependencies |-> data.dependencies,
      peerDependencies |-> data.peerDependencies,
      children |-> <<>> ]

\* const packageName = pathParts[pathParts.length - 1]
PackageNameOf(packagePath) == Split(packagePath)[Len(Split(packagePath))]

\* Mutant of PackageNodeOf: the node records its name where its path belongs.
PackageNodeWithNameAsPath(pj, packagePath, data) ==
    [ name |-> PackageNameOf(packagePath),
      version |-> IF data.version = "" THEN "unknown" ELSE data.version,
      path |-> PackageNameOf(packagePath),
      isDev |-> isDevDependency(PackageNameOf(packagePath), pj, packagePath),
      dependencies |-> data.dependencies,
      peerDependencies |-> data.peerDependencies,
      children |-> <<>> ]

\* A non-root PackageNode.
PackageNodeOf(pj, packagePath, data) ==
    [ name |-> PackageNameOf(packagePath),
      version |-> IF data.version = "" THEN "unknown" ELSE data.version,
      path |-> packagePath,
      isDev |-> isDevDependency(PackageNameOf(packagePath), pj, packagePath),
      dependencies |-> data.dependencies,
      peerDependencies |-> data.peerDependencies,
      children |-> <<>> ]

NewNode(pj, packagePath, data) ==
    IF packagePath = <<>> THEN RootNodeOf(pj, data) ELSE PackageNodeOf(pj, packagePath, data)

\* First pass: one PackageNode per lockfile entry, stored under its path.
RECURSIVE FirstPass(_, _, _, _)
FirstPass(entries, pj, heap, map) ==
    IF entries = <<>> THEN [nodes |-> heap, allNodes |-> map]
    ELSE LET e == Head(entries)
         IN  FirstPass(Tail(entries), pj,
                       Append(heap, NewNode(pj, e.key, e.value)),
                       MapSet(map, e.key, Len(heap) + 1))

\* `${parentPath}/node_modules/${depName}`, or `node_modules/${depName}` for the root.
ExpectedPath(parentPath, depName) ==
    IF parentPath = <<>> THEN <<NM, "/">> \o depName
    ELSE parentPath \o <<"/", NM, "/">> \o depName

\* pathParts.slice(0, i + 1).join("/") + `/node_modules/${depName}`, i 0-based
HoistedPath(pathParts, i, depName) ==
    Join(Slice0(pathParts, i + 1)) \o <<"/", NM, "/">> \o depName

\* for (let i = pathParts.length - 2; i >= 0; i -= 2): the first hit, else 0
RECURSIVE HoistLoop(_, _, _, _)
HoistLoop(pathParts, i, depName, allNodes) ==
    IF i < 0 THEN 0
    ELSE IF MapGet(allNodes, HoistedPath(pathParts, i, depName)) # 0
         THEN MapGet(allNodes, HoistedPath(pathParts, i, depName))
         ELSE HoistLoop(pathParts, i - 2, depName, allNodes)

\* findChildNode(parentPath, depName, allNodes): a node reference or 0 (null)
findChildNode(parentPath, depName, allNodes) ==
    LET direct == MapGet(allNodes, ExpectedPath(parentPath, depName))
        pathParts == Split(parentPath)
        hoisted == HoistLoop(pathParts, Len(pathParts) - 2, depName, allNodes)
    IN  IF direct # 0 THEN direct
        ELSE IF hoisted # 0 THEN hoisted
        ELSE MapGet(allNodes, <<NM, "/">> \o depName)

\* The children of one node: for each dependency name, the node found, if any.
RECURSIVE ChildrenOf(_, _, _)
ChildrenOf(parentPath, depNames, allNodes) ==
    IF depNames = <<>> THEN <<>>
    ELSE LET c == findChildNode(parentPath, Head(depNames), allNodes)
         IN  (IF c # 0 THEN <<c>> ELSE <<>>)
             \o ChildrenOf(parentPath, Tail(depNames), allNodes)

\* Second pass: for every [packagePath, node] of allNodes, push the children.
RECURSIVE SecondPass(_, _, _)
SecondPass(i, heap, allNodes) ==
    IF i > Len(allNodes) THEN heap
    ELSE LET ref == allNodes[i].value
             kids == ChildrenOf(allNodes[i].key, ObjectKeys(heap[ref].dependencies), allNodes)
         IN  SecondPass(i + 1,
                        [heap EXCEPT ![ref].children = heap[ref].children \o kids],
                        allNodes)

\* Mutant of RootMissing: the lookup of the root is never checked.
RootNeverMissing(rootNode) == FALSE

\* const rootNode = allNodes.get(""); if (!rootNode) throw
RootMissing(rootNode) == rootNode = 0

\* GraphService.buildGraph(packageJson, packageLockJson)
buildGraph(pj, lock) ==
    IF VersionRejected(lock) THEN Thrown(UnsupportedFormat)
    ELSE LET first == FirstPass(PackagesOf(lock), pj, <<>>, <<>>)
             heap == SecondPass(1, first.nodes, first.allNodes)
             rootNode == MapGet(first.allNodes, <<>>)
         IN  IF RootMissing(rootNode) THEN Thrown(MissingRoot)
             ELSE [status |-> "ok", error |-> "", root |-> rootNode,
                   allNodes |-> first.allNodes, nodes |-> heap]

\* getGraphStats: the counting loop over allNodes.
RECURSIVE CountDirect(_, _, _, _)
CountDirect(g, i, directDependencies, devDependencies) ==
    IF i > Len(g.allNodes)
    THEN [directDependencies |-> directDependencies, devDependencies |-> devDependencies]
    ELSE IF g.allNodes[i].key # <<>> /\ Len(Split(g.allNodes[i].key)) = 2
    THEN CountDirect(g, i + 1, directDependencies + 1,
                     IF g.nodes[g.allNodes[i].value].isDev
                     THEN devDependencies + 1 ELSE devDependencies)
    ELSE CountDirect(g, i + 1, directDependencies, devDependencies)

\* Mutant of MathMax: the depth of a child never raises the maximum.
MathMaxKeepsFirst(a, b) == a

MathMax(a, b) == IF a >= b THEN a ELSE b

\* The recursion has no end: the call stack is exhausted and RangeError is thrown.
StackExhausted == -1

\* calculateMaxDepth keeps no record of the nodes it has entered; onPath holds
\* the nodes of the calls in progress, and a node entered again while it is
\* on the path is entered without end.
RECURSIVE calculateMaxDepth(_, _, _, _)
RECURSIVE MaxChildDepth(_, _, _, _, _)
RECURSIVE AfterChild(_, _, _, _, _, _)
calculateMaxDepth(heap, node, currentDepth, onPath) ==
    IF node \in onPath THEN StackExhausted
    ELSE IF heap[node].children = <<>> THEN currentDepth
    ELSE MaxChildDepth(heap, heap[node].children, currentDepth,
                       onPath \cup {node}, currentDepth)

MaxChildDepth(heap, children, currentDepth, onPath, maxChildDepth) ==
    IF children = <<>> THEN maxChildDepth
    ELSE AfterChild(heap, children, currentDepth, onPath, maxChildDepth,
                    calculateMaxDepth(heap, Head(children), currentDepth + 1, onPath))

AfterChild(heap, children, currentDepth, onPath, maxChildDepth, childDepth) ==
    IF childDepth = StackExhausted THEN StackExhausted
    ELSE MaxChildDepth(heap, Tail(children), currentDepth, onPath,
                       MathMax(maxChildDepth, childDepth))

NoStats ==
    [status |-> "none", totalNodes |-> 0, directDependencies |-> 0,
     devDependencies |-> 0, maxDepth |-> 0]

GraphStats(g, counted, maxDepth) ==
    IF maxDepth = StackExhausted THEN [NoStats EXCEPT !.status = "threw"]
    ELSE [status |-> "ok", totalNodes |-> Len(g.allNodes),
          directDependencies |-> counted.directDependencies,
          devDependencies |-> counted.devDependencies,
          maxDepth |-> maxDepth]

getGraphStats(g) ==
    GraphStats(g, CountDirect(g, 1, 0, 0), calculateMaxDepth(g.nodes, g.root, 0, {}))

\* ------------------------------------------------------------------ semver

\* The version strings of the model and the major.minor.patch semver reads in them.
VersionTable ==
    << [s |-> "0.0.0", v |-> <<0, 0, 0>>],   [s |-> "1.0.0", v |-> <<1, 0, 0>>],
       [s |-> "2.0.0", v |-> <<2, 0, 0>>],   [s |-> "3.0.0", v |-> <<3, 0, 0>>],
       [s |-> "4.0.0", v |-> <<4, 0, 0>>],   [s |-> "15.0.0", v |-> <<15, 0, 0>>],
       [s |-> "16.0.0", v |-> <<16, 0, 0>>], [s |-> "16.8.0", v |-> <<16, 8, 0>>],
       [s |-> "17.0.0", v |-> <<17, 0, 0>>], [s |-> "17.0.2", v |-> <<17, 0, 2>>],
       [s |-> "17.2.0", v |-> <<17, 2, 0>>], [s |-> "18.0.0", v |-> <<18, 0, 0>>],
       [s |-> "18.2.0", v |-> <<18, 2, 0>>] >>

\* new SemVer(version): <<major, minor, patch>>, or <<>> where the constructor
\* throws "Invalid Version" ("unknown", "", a range).
SemverParse(s) ==
    IF \E i \in 1..Len(VersionTable) : VersionTable[i].s = s
    THEN VersionTable[CHOOSE i \in 1..Len(VersionTable) : VersionTable[i].s = s].v
    ELSE <<>>

SemverValid(s) == SemverParse(s) # <<>>

\* SemVer.compare on two parsed versions: -1, 0 or 1
CompareParsed(a, b) ==
    IF a[1] # b[1] THEN (IF a[1] < b[1] THEN -1 ELSE 1)
    ELSE IF a[2] # b[2] THEN (IF a[2] < b[2] THEN -1 ELSE 1)
    ELSE IF a[3] # b[3] THEN (IF a[3] < b[3] THEN -1 ELSE 1)
    ELSE 0

\* semver.compare / gt / lt throw on an invalid version: callers test SemverValid first.
SemverCompare(a, b) == CompareParsed(SemverParse(a), SemverParse(b))
SemverGt(a, b) == SemverCompare(a, b) > 0
SemverLt(a, b) == SemverCompare(a, b) < 0
SemverMajor(s) == SemverParse(s)[1]

\* The ranges of the model: a caret range "^M.m.p" is its text and its base version.
RangeTable ==
    << [s |-> "^16.0.0", v |-> <<16, 0, 0>>],
       [s |-> "^17.0.0", v |-> <<17, 0, 0>>],
       [s |-> "^17.0.2", v |-> <<17, 0, 2>>],
       [s |-> "^18.0.0", v |-> <<18, 0, 0>>],
       [s |-> "^19.0.0", v |-> <<19, 0, 0>>] >>

RangeBase(r) ==
    IF \E i \in 1..Len(RangeTable) : RangeTable[i].s = r
    THEN RangeTable[CHOOSE i \in 1..Len(RangeTable) : RangeTable[i].s = r].v
    ELSE <<>>

\* semver.coerce(version): the SemVer of the first version number in the text
\* (the version itself, the base of a range), <<>> for null ("*", "latest").
SemverCoerce(s) == IF SemverValid(s) THEN SemverParse(s) ELSE RangeBase(s)

\* The exclusive upper end of ^M.m.p: the next major (the next minor below 1.0.0,
\* the next patch below 0.1.0).
CaretCeiling(b) ==
    IF b[1] > 0 THEN <<b[1] + 1, 0, 0>>
    ELSE IF b[2] > 0 THEN <<0, b[2] + 1, 0>>
    ELSE <<0, 0, b[3] + 1>>

\* semver.satisfies(version, range): false, never a throw, when either is invalid.
SemverSatisfies(version, range) ==
    /\ SemverValid(version)
    /\ RangeBase(range) # <<>>
    /\ CompareParsed(SemverParse(version), RangeBase(range)) >= 0
    /\ CompareParsed(SemverParse(version), CaretCeiling(RangeBase(range))) < 0

\* ------------------------------------------------------------------ NpmService

\* What the registry can answer to one request.
FetchOutcomes == {"ok", "notFound", "httpError", "networkFailure", "invalidBody"}

Published(version) == [key |-> version, value |-> [peerDependencies |-> <<>>]]

PublishedWith(version, peerName, range) ==
    [key |-> version, value |-> [peerDependencies |-> <<[key |-> peerName, value |-> range]>>]]

\* The registry's documents (versions in publication order).
Registry ==
    << [key |-> <<"react">>,
        value |-> [name |-> <<"react">>,
                   versions |-> << Published("16.8.0"), Published("17.0.0"), Published("17.0.2"),
                                   Published("17.2.0"), Published("18.0.0"), Published("18.2.0") >>,
                   latest |-> "18.2.0", distTags |-> TRUE]],
       [key |-> <<"@", "angular", "/", "core">>,
        value |-> [name |-> <<"@", "angular", "/", "core">>,
                   versions |-> << Published("15.0.0"), Published("16.0.0") >>,
                   latest |-> "16.0.0", distTags |-> TRUE]],
       [key |-> <<"lodash">>,
        value |-> [name |-> <<"lodash">>,
                   versions |-> << Published("3.0.0"), Published("4.0.0") >>,
                   latest |-> "4.0.0", distTags |-> TRUE]],
       \* packages whose latest version declares a peer dependency on react
       [key |-> <<"ui16">>,
        value |-> [name |-> <<"ui16">>,
                   versions |-> << PublishedWith("1.0.0", <<"react">>, "^16.0.0") >>,
                   latest |-> "1.0.0", distTags |-> TRUE]],
       [key |-> <<"ui17">>,
        value |-> [name |-> <<"ui17">>,
                   versions |-> << PublishedWith("1.0.0", <<"react">>, "^17.0.0") >>,
                   latest |-> "1.0.0", distTags |-> TRUE]],
       [key |-> <<"ui17b">>,
        value |-> [name |-> <<"ui17b">>,
                   versions |-> << PublishedWith("1.0.0", <<"react">>, "^17.0.2") >>,
                   latest |-> "1.0.0", distTags |-> TRUE]],
       \* a document whose "dist-tags" object has no latest entry
       [key |-> <<"untagged">>,
        value |-> [name |-> <<"untagged">>, versions |-> << Published("1.0.0") >>,
                   latest |-> "", distTags |-> TRUE]],
       \* the document of an unpublished package: neither "versions" nor "dist-tags"
       [key |-> <<"gone">>,
        value |-> [name |-> <<"gone">>, versions |-> <<>>, latest |-> "", distTags |-> FALSE]] >>

NoDocument == [name |-> <<>>, versions |-> <<>>, latest |-> "", distTags |-> FALSE]

RegistryHas(packageName) == MapHas(Registry, packageName)
RegistryDoc(packageName) ==
    IF RegistryHas(packageName) THEN Registry[MapIndex(Registry, packageName)].value ELSE NoDocument

\* Mutant of FetchStores: a response is cached before its body is parsed.
FetchStoresUnparsed(outcome) == outcome \in {"ok", "invalidBody"}

\* getPackageInfo after its fetch: TRUE when the call caches and returns the
\* document, FALSE when it returns null.  fetch rejecting, a non-ok status other
\* than 404 (thrown) and response.json() rejecting all end in the catch block.
FetchStores(outcome) ==
    IF outcome = "networkFailure" THEN FALSE
    ELSE IF outcome = "notFound" THEN FALSE
    ELSE IF outcome = "httpError" THEN FALSE
    ELSE IF outcome = "invalidBody" THEN FALSE
    ELSE TRUE

\* The state a scan threads through its registry calls: the cache, the results
\* of the fetches that have completed and are not yet consumed (TRUE: a document),
\* whether the scan is suspended on a fetch that has not completed, and whether
\* it has thrown.
Io(startCache, fetched) ==
    [cache |-> startCache, fetched |-> fetched, blocked |-> FALSE, awaiting |-> <<>>, threw |-> FALSE]

Halted(io) == io.blocked \/ io.threw

\* Mutant of StoreResponse: the document is stored under the key the cache holds
\* first, whatever name was asked for.
StoreUnderFirstKey(cached, packageName, doc) ==
    IF cached = <<>> THEN <<[key |-> packageName, value |-> doc]>>
    ELSE <<[key |-> cached[1].key, value |-> doc]>> \o Tail(cached)

\* Mutant of StoreResponse: the cache keeps only the document stored last.
StoreResponseOnly(cached, packageName, doc) == <<[key |-> packageName, value |-> doc]>>

\* this.cache.set(packageName, packageInfo)
StoreResponse(cached, packageName, doc) == MapSet(cached, packageName, doc)

\* Mutant of CacheHit: the cache is never consulted.
CacheNeverHit(cached, packageName) == FALSE

\* if (this.cache.has(packageName)) return this.cache.get(packageName)
CacheHit(cached, packageName) == MapHas(cached, packageName)

\* NpmService.getPackageInfo(packageName): [io, found, doc]
getPackageInfo(io, packageName) ==
    IF Halted(io) THEN [io |-> io, found |-> FALSE, doc |-> NoDocument]
    ELSE IF CacheHit(io.cache, packageName)
    THEN [io |-> io, found |-> TRUE, doc |-> io.cache[MapIndex(io.cache, packageName)].value]
    ELSE IF io.fetched = <<>>
    THEN [io |-> [io EXCEPT !.blocked = TRUE, !.awaiting = packageName],
          found |-> FALSE, doc |-> NoDocument]
    ELSE IF Head(io.fetched)
    THEN [io |-> [io EXCEPT !.cache = StoreResponse(io.cache, packageName, RegistryDoc(packageName)),
                            !.fetched = Tail(io.fetched)],
          found |-> TRUE, doc |-> RegistryDoc(packageName)]
    ELSE [io |-> [io EXCEPT !.fetched = Tail(io.fetched)], found |-> FALSE, doc |-> NoDocument]

\* Insert version s into a list sorted newest first
\* (b.localeCompare(a, undefined, {numeric: true}) on plain x.y.z versions).
RECURSIVE InsertDesc(_, _)
InsertDesc(s, sorted) ==
    IF sorted = <<>> THEN <<s>>
    ELSE IF SemverCompare(s, Head(sorted)) > 0 THEN <<s>> \o sorted
    ELSE <<Head(sorted)>> \o InsertDesc(s, Tail(sorted))

RECURSIVE SortDesc(_)
SortDesc(versions) ==
    IF versions = <<>> THEN <<>> ELSE InsertDesc(Head(versions), SortDesc(Tail(versions)))

\* if (!packageInfo) return []; return Object.keys(packageInfo.versions).sort(...)
\* On a document without "versions" Object.keys throws; every caller is inside a
\* try block whose catch leaves it where an empty list does.
VersionsOf(info) ==
    [io |-> info.io,
     versions |-> IF info.found THEN SortDesc(ObjectKeys(info.doc.versions)) ELSE <<>>]

\* NpmService.getAvailableVersions(packageName): [io, versions]
getAvailableVersions(io, packageName) == VersionsOf(getPackageInfo(io, packageName))

\* if (!packageInfo) return null; return packageInfo["dist-tags"].latest || null
\* On a document without "dist-tags" the read throws; every caller is inside a try
\* block whose catch leaves it where a null result does.
LatestOf(info) ==
    [io |-> info.io,
     latest |-> IF info.found /\ info.doc.distTags THEN info.doc.latest ELSE ""]

\* NpmService.getLatestVersion(packageName): [io, latest], "" for null
getLatestVersion(io, packageName) == LatestOf(getPackageInfo(io, packageName))

\* ------------------------------------------------------------------ AnalyzerService

PeerDependency == "PeerDependency"
DuplicateSingleton == "DuplicateSingleton"

SINGLETON_PACKAGES ==
    << <<"react">>, <<"vue">>, <<"angular">>, <<"@", "angular", "/", "core">>,
       <<"jquery">>, <<"lodash">>, <<"moment">>, <<"axios">> >>

\* Words separated by single spaces.
RECURSIVE Words(_)
Words(ws) ==
    IF Len(ws) = 0 THEN <<>>
    ELSE IF Len(ws) = 1 THEN <<ws[1]>>
    ELSE <<ws[1], " ">> \o Words(Tail(ws))

\* A Solution: its description and what its action closure would install.
Solution(description, packageName, version) ==
    [description |-> description, action |-> [packageName |-> packageName, version |-> version]]

\* `Install ${peerName}@${latestCompatible} (latest compatible version)`
InstallCompatibleText(peerName, version) ==
    <<"Install", " ">> \o peerName \o <<"@", version, " ">>
        \o Words(<<"(latest", "compatible", "version)">>)

\* `Install ${peerName}@${latestVersion} (latest version - may require updating dependent packages)`
InstallLatestText(peerName, version) ==
    <<"Install", " ">> \o peerName \o <<"@", version, " ">>
        \o Words(<<"(latest", "version", "-", "may", "require", "updating", "dependent", "packages)">>)

\* `Upgrade ${peerName} from ${installedVersion} to ${latestCompatible}`
UpgradeText(peerName, installedVersion, version) ==
    <<"Upgrade", " ">> \o peerName \o <<" ", "from", " ", installedVersion, " ", "to", " ", version>>

\* `Downgrade ${peerName} from ${installedVersion} to ${latestCompatible}`
DowngradeText(peerName, installedVersion, version) ==
    <<"Downgrade", " ">> \o peerName \o <<" ", "from", " ", installedVersion, " ", "to", " ", version>>

\* `Consolidate to ${packageName}@${latestVersion.version} (remove duplicates)`
ConsolidateText(packageName, version) ==
    <<"Consolidate", " ", "to", " ">> \o packageName \o <<"@", version, " ", "(remove", " ", "duplicates)">>

\* `Upgrade all instances to ${packageName}@${latestAvailable} (latest available)`
UpgradeAllText(packageName, version) ==
    <<"Upgrade", " ", "all", " ", "instances", " ", "to", " ">> \o packageName
        \o <<"@", version, " ", "(latest", " ", "available)">>

\* `${node.name}@${node.version} requires peer dependency ${peerName}@${peerVersionRange}, `
RequiresText(node, peerName, range) ==
    node.name \o <<"@", node.version, " ">> \o Words(<<"requires", "peer", "dependency">>)
        \o <<" ">> \o peerName \o <<"@", range, ",", " ">>

MissingPeerMessage(node, peerName, range) ==
    RequiresText(node, peerName, range) \o Words(<<"but", "it", "is", "not", "installed.">>)

PeerVersionMessage(node, peerName, range, installedVersion) ==
    RequiresText(node, peerName, range) \o <<"but", " ">> \o peerName
        \o <<"@", installedVersion, " ", "is", " ", "installed.">>

\* installedVersions.map((n) => `${n.version} (${n.path})`).join(", ")
RECURSIVE VersionList(_, _)
VersionList(g, refs) ==
    IF refs = <<>> THEN <<>>
    ELSE <<g.nodes[Head(refs)].version, " ", "(">> \o g.nodes[Head(refs)].path \o <<")">>
         \o (IF Len(refs) > 1 THEN <<",", " ">> ELSE <<>>) \o VersionList(g, Tail(refs))

SingletonMessage(g, packageName, refs) ==
    Words(<<"Multiple", "incompatible", "versions", "of">>) \o <<" ">> \o packageName
        \o <<" ", "detected:", " ">> \o VersionList(g, refs)
        \o <<".", " ">> \o Words(<<"This", "may", "cause", "runtime", "issues.">>)

\* The first node of allNodes, from entry i on, whose name is the package's (0: none).
RECURSIVE FirstNamed(_, _, _)
FirstNamed(g, packageName, i) ==
    IF i > Len(g.allNodes) THEN 0
    ELSE IF g.nodes[g.allNodes[i].value].name = packageName THEN g.allNodes[i].value
    ELSE FirstNamed(g, packageName, i + 1)

\* findInstalledPeerDependency(graph, peerName): a node reference or 0 (null)
findInstalledPeerDependency(g, peerName) ==
    IF MapGet(g.allNodes, <<NM, "/">> \o peerName) # 0
    THEN MapGet(g.allNodes, <<NM, "/">> \o peerName)
    ELSE FirstNamed(g, peerName, 1)

\* findAllVersionsOfPackage(graph, packageName): node references in allNodes order
RECURSIVE AllNamed(_, _, _)
AllNamed(g, packageName, i) ==
    IF i > Len(g.allNodes) THEN <<>>
    ELSE (IF g.nodes[g.allNodes[i].value].name = packageName
          THEN <<g.allNodes[i].value>> ELSE <<>>)
         \o AllNamed(g, packageName, i + 1)

findAllVersionsOfPackage(g, packageName) == AllNamed(g, packageName, 1)

\* availableVersions.filter((version) => semver.satisfies(version, range))
RECURSIVE CompatibleVersions(_, _)
CompatibleVersions(versions, range) ==
    IF versions = <<>> THEN <<>>
    ELSE (IF SemverSatisfies(Head(versions), range) THEN <<Head(versions)>> ELSE <<>>)
         \o CompatibleVersions(Tail(versions), range)

Includes(list, x) == \E i \in 1..Len(list) : list[i] = x

\* The solution pushed when some registry version satisfies the range.
CompatibleSolution(peerName, compatible) ==
    IF Len(compatible) > 0
    THEN <<Solution(InstallCompatibleText(peerName, compatible[1]), peerName, compatible[1])>>
    ELSE <<>>

\* if (latestVersion && !compatibleVersions.includes(latestVersion)) solutions.push(...)
FallbackSolution(peerName, compatible, latestVersion) ==
    IF latestVersion # "" /\ ~Includes(compatible, latestVersion)
    THEN <<Solution(InstallLatestText(peerName, latestVersion), peerName, latestVersion)>>
    ELSE <<>>

MissingPeerAfterLatest(peerName, compatible, latest) ==
    [io |-> latest.io,
     solutions |-> CompatibleSolution(peerName, compatible)
                   \o FallbackSolution(peerName, compatible, latest.latest)]

MissingPeerAfterVersions(peerName, range, available) ==
    MissingPeerAfterLatest(peerName, CompatibleVersions(available.versions, range),
                           getLatestVersion(available.io, peerName))

\* generateMissingPeerSolutions(peerName, peerVersionRange): [io, solutions]
generateMissingPeerSolutions(io, peerName, range) ==
    MissingPeerAfterVersions(peerName, range, getAvailableVersions(io, peerName))

\* Mutant of UpgradeOrDowngrade: the best compatible version is always proposed
\* as an upgrade.
AlwaysUpgrade(peerName, installedVersion, compatible) ==
    IF Len(compatible) = 0 THEN <<>>
    ELSE IF ~SemverValid(installedVersion) THEN <<>>
    ELSE <<Solution(UpgradeText(peerName, installedVersion, compatible[1]),
                    peerName, compatible[1])>>

\* The upgrade or downgrade to the best compatible version.  semver.gt throws on
\* an invalid installed version, inside the try block: no solution.
UpgradeOrDowngrade(peerName, installedVersion, compatible) ==
    IF Len(compatible) = 0 THEN <<>>
    ELSE IF ~SemverValid(installedVersion) THEN <<>>
    ELSE IF SemverGt(compatible[1], installedVersion)
    THEN <<Solution(UpgradeText(peerName, installedVersion, compatible[1]),
                    peerName, compatible[1])>>
    ELSE IF SemverLt(compatible[1], installedVersion)
    THEN <<Solution(DowngradeText(peerName, installedVersion, compatible[1]),
                    peerName, compatible[1])>>
    ELSE <<>>

PeerVersionAfterVersions(peerName, range, installedVersion, available) ==
    [io |-> available.io,
     solutions |-> UpgradeOrDowngrade(peerName, installedVersion,
                                      CompatibleVersions(available.versions, range))]

\* generatePeerVersionConflictSolutions(peerName, requiredRange, installedVersion)
generatePeerVersionConflictSolutions(io, peerName, range, installedVersion) ==
    PeerVersionAfterVersions(peerName, range, installedVersion,
                             getAvailableVersions(io, peerName))

\* conflictingNodes.sort((a, b) => semver.compare(b.version, a.version)): stable,
\* highest version first.
RECURSIVE InsertNodeDesc(_, _, _)
InsertNodeDesc(g, ref, sorted) ==
    IF sorted = <<>> THEN <<ref>>
    ELSE IF SemverCompare(g.nodes[ref].version, g.nodes[Head(sorted)].version) > 0
    THEN <<ref>> \o sorted
    ELSE <<Head(sorted)>> \o InsertNodeDesc(g, ref, Tail(sorted))

RECURSIVE SortNodesDesc(_, _)
SortNodesDesc(g, refs) ==
    IF refs = <<>> THEN <<>>
    ELSE InsertNodeDesc(g, refs[Len(refs)], SortNodesDesc(g, SubSeq(refs, 1, Len(refs) - 1)))

AllVersionsValid(g, refs) == \A i \in 1..Len(refs) : SemverValid(g.nodes[refs[i]].version)

\* Mutant of UpgradeAllSolution: the upgrade is proposed whenever the registry
\* names a latest version.
UpgradeAllAlways(packageName, highestInstalled, latestAvailable) ==
    IF latestAvailable # ""
    THEN <<Solution(UpgradeAllText(packageName, latestAvailable), packageName, latestAvailable)>>
    ELSE <<>>

\* if (latestAvailable && semver.gt(latestAvailable, latestVersion.version)) push
UpgradeAllSolution(packageName, highestInstalled, latestAvailable) ==
    IF latestAvailable # "" /\ SemverValid(latestAvailable)
       /\ SemverGt(latestAvailable, highestInstalled)
    THEN <<Solution(UpgradeAllText(packageName, latestAvailable), packageName, latestAvailable)>>
    ELSE <<>>

SingletonAfterLatest(packageName, sortedNodes, highestInstalled, latest) ==
    [io |-> latest.io,
     solutions |-> <<Solution(ConsolidateText(packageName, highestInstalled),
                              packageName, highestInstalled)>>
                   \o UpgradeAllSolution(packageName, highestInstalled, latest.latest),
     nodes |-> sortedNodes]

SingletonAfterSort(io, g, packageName, sortedNodes) ==
    SingletonAfterLatest(packageName, sortedNodes, g.nodes[sortedNodes[1]].version,
                         getLatestVersion(io, packageName))

\* generateSingletonConflictSolutions(packageName, conflictingNodes):
\* [io, solutions, nodes]; nodes is conflictingNodes after the in-place sort.  The
\* sort is outside the try block; semver.gt on the latest version is inside it.
generateSingletonConflictSolutions(io, g, packageName, conflictingNodes) ==
    IF ~AllVersionsValid(g, conflictingNodes)
    THEN [io |-> [io EXCEPT !.threw = TRUE], solutions |-> <<>>, nodes |-> conflictingNodes]
    ELSE SingletonAfterSort(io, g, packageName, SortNodesDesc(g, conflictingNodes))

Conflict(type, packageName, message, nodes, solutions) ==
    [type |-> type, packageName |-> packageName, message |-> message,
     nodes |-> nodes, solutions |-> solutions]

\* Mutant of PeerMismatch: the test of the installed version is inverted.
PeerMismatchInverted(installedVersion, range) == SemverSatisfies(installedVersion, range)

\* if (!semver.satisfies(installedPeerNode.version, peerVersionRange))
PeerMismatch(installedVersion, range) == ~SemverSatisfies(installedVersion, range)

\* Mutant of PushConflict: a conflict for which no solution was generated is dropped.
PushConflictIfSolved(st, type, packageName, message, nodes, generated) ==
    [io |-> generated.io,
     conflicts |-> IF generated.solutions = <<>> THEN st.conflicts
                   ELSE Append(st.conflicts,
                               Conflict(type, packageName, message, nodes, generated.solutions))]

\* conflicts.push(conflict) with the solutions generated; st is [io, conflicts]
PushConflict(st, type, packageName, message, nodes, generated) ==
    [io |-> generated.io,
     conflicts |-> Append(st.conflicts,
                          Conflict(type, packageName, message, nodes, generated.solutions))]

\* The body of the loop over peerDependencies, the installed peer being located.
CheckLocatedPeer(g, st, ref, peerName, range, installed) ==
    IF installed = 0
    THEN PushConflict(st, PeerDependency, peerName,
                      MissingPeerMessage(g.nodes[ref], peerName, range), <<ref>>,
                      generateMissingPeerSolutions(st.io, peerName, range))
    ELSE IF PeerMismatch(g.nodes[installed].version, range)
    THEN PushConflict(st, PeerDependency, peerName,
                      PeerVersionMessage(g.nodes[ref], peerName, range,
                                         g.nodes[installed].version),
                      <<ref, installed>>,
                      generatePeerVersionConflictSolutions(
                          st.io, peerName, range, g.nodes[installed].version))
    ELSE st

\* One entry [peerName, peerVersionRange] of node.peerDependencies.
\* A scan that is suspended or has thrown does nothing more.
CheckPeer(g, st, ref, peerName, range) ==
    IF Halted(st.io) THEN st
    ELSE CheckLocatedPeer(g, st, ref, peerName, range, findInstalledPeerDependency(g, peerName))

\* for (const [peerName, peerVersionRange] of Object.entries(node.peerDependencies))
RECURSIVE PeerEntries(_, _, _, _)
PeerEntries(g, st, ref, peers) ==
    IF peers = <<>> THEN st
    ELSE PeerEntries(g, CheckPeer(g, st, ref, Head(peers).key, Head(peers).value),
                     ref, Tail(peers))

\* Mutant of SkipsNode: the root's peer dependencies are checked too.
SkipsNoNode(path) == FALSE

\* if (path === "") continue
SkipsNode(path) == path = <<>>

\* findPeerDependencyConflicts(graph), from entry i of allNodes on
RECURSIVE findPeerDependencyConflicts(_, _, _)
findPeerDependencyConflicts(g, st, i) ==
    IF i > Len(g.allNodes) THEN st
    ELSE IF SkipsNode(g.allNodes[i].key) THEN findPeerDependencyConflicts(g, st, i + 1)
    ELSE findPeerDependencyConflicts(
             g,
             PeerEntries(g, st, g.allNodes[i].value,
                         g.nodes[g.allNodes[i].value].peerDependencies),
             i + 1)

\* new Set(installedVersions.map((node) => semver.major(node.version)))
MajorVersions(g, refs) == { SemverMajor(g.nodes[refs[i]].version) : i \in 1..Len(refs) }

\* The conflict pushed for a singleton installed in more than one major version.
PushSingleton(g, st, singletonPackage, installedVersions, generated) ==
    [io |-> generated.io,
     conflicts |-> Append(st.conflicts,
                          Conflict(DuplicateSingleton, singletonPackage,
                                   SingletonMessage(g, singletonPackage, installedVersions),
                                   generated.nodes, generated.solutions))]

\* The body of the loop over SINGLETON_PACKAGES, the installed nodes being found.
\* semver.major throws on an invalid version, outside any try block.
CheckInstalled(g, st, singletonPackage, installedVersions) ==
    IF Len(installedVersions) <= 1 THEN st
    ELSE IF ~AllVersionsValid(g, installedVersions) THEN [st EXCEPT !.io.threw = TRUE]
    ELSE IF Cardinality(MajorVersions(g, installedVersions)) <= 1 THEN st
    ELSE PushSingleton(g, st, singletonPackage, installedVersions,
                       generateSingletonConflictSolutions(
                           st.io, g, singletonPackage, installedVersions))

CheckSingleton(g, st, singletonPackage) ==
    IF Halted(st.io) THEN st
    ELSE CheckInstalled(g, st, singletonPackage, findAllVersionsOfPackage(g, singletonPackage))

\* findDuplicateSingletonConflicts(graph), from singleton k on
RECURSIVE findDuplicateSingletonConflicts(_, _, _)
findDuplicateSingletonConflicts(g, st, k) ==
    IF k > Len(SINGLETON_PACKAGES) THEN st
    ELSE findDuplicateSingletonConflicts(g, CheckSingleton(g, st, SINGLETON_PACKAGES[k]), k + 1)

\* What the call has come to: "await" when it is suspended on the next fetch,
\* "threw" when the promise rejects, "done" when it resolves to the conflict list.
Settled(st) ==
    [status |-> IF st.io.blocked THEN "await" ELSE IF st.io.threw THEN "threw" ELSE "done",
     awaiting |-> st.io.awaiting,
     conflicts |-> IF Halted(st.io) THEN <<>> ELSE st.conflicts,
     cache |-> st.io.cache]

\* Mutant of findConflicts: the singleton conflicts are computed and pushed first.
findConflictsSingletonsFirst(g, startCache, fetched) ==
    Settled(findPeerDependencyConflicts(
                g,
                findDuplicateSingletonConflicts(
                    g, [io |-> Io(startCache, fetched), conflicts |-> <<>>], 1),
                1))

\* AnalyzerService.findConflicts(graph), run against the cache as it was when the
\* call started and the fetches that have completed since.
findConflicts(g, startCache, fetched) ==
    Settled(findDuplicateSingletonConflicts(
                g,
                findPeerDependencyConflicts(
                    g, [io |-> Io(startCache, fetched), conflicts |-> <<>>], 1),
                1))

\* ------------------------------------------------------------------ FixService

\* A regular expression over token strings: a sequence of elements
\*   lit    one token out of toks
\*   spaces \s+   (greedy)
\*   lazy   (.+?) (lazy; "." matches no line terminator), captured as group cap if cap > 0
\*   end    $
\* matched with JavaScript's backtracking order.  A literal matches whole tokens.
RxLit(toks) == [t |-> "lit", toks |-> toks, cap |-> 0]
RxSpaces == [t |-> "spaces", toks |-> {}, cap |-> 0]
RxLazy(cap) == [t |-> "lazy", toks |-> {}, cap |-> cap]
RxEnd == [t |-> "end", toks |-> {}, cap |-> 0]

Whitespace == {" ", "\n"}

NoCaptures == << <<>>, <<>>, <<>> >>
RxFail == [ok |-> FALSE, caps |-> NoCaptures]

\* The length of the run of whitespace tokens of d that starts at pos.
RECURSIVE SpaceRun(_, _)
SpaceRun(d, pos) ==
    IF pos > Len(d) \/ d[pos] \notin Whitespace THEN 0 ELSE 1 + SpaceRun(d, pos + 1)

RECURSIVE RxMatch(_, _, _, _, _)
RECURSIVE RxTry(_, _, _, _, _, _, _)

\* Elements k.. of pat matched against d from pos on.
RxMatch(d, pat, k, pos, caps) ==
    IF k > Len(pat) THEN [ok |-> TRUE, caps |-> caps]
    ELSE IF pat[k].t = "lit"
    THEN (IF pos <= Len(d) /\ d[pos] \in pat[k].toks
          THEN RxMatch(d, pat, k + 1, pos + 1, caps) ELSE RxFail)
    ELSE IF pat[k].t = "end"
    THEN (IF pos = Len(d) + 1 THEN RxMatch(d, pat, k + 1, pos, caps) ELSE RxFail)
    ELSE IF pat[k].t = "spaces"
    THEN RxTry(d, pat, k, pos, SpaceRun(d, pos), -1, caps)
    ELSE RxTry(d, pat, k, pos, 1, 1, caps)

\* Element k taking len tokens, then len + step, ...: the first that lets the rest match.
RxTry(d, pat, k, pos, len, step, caps) ==
    IF len < 1 \/ pos + len - 1 > Len(d) THEN RxFail
    ELSE IF pat[k].t = "lazy" /\ d[pos + len - 1] = "\n" THEN RxFail
    ELSE LET taken == IF pat[k].cap > 0
                      THEN [caps EXCEPT ![pat[k].cap] = SubSeq(d, pos, pos + len - 1)]
                      ELSE caps
             rest == RxMatch(d, pat, k + 1, pos + len, taken)
         IN  IF rest.ok THEN rest ELSE RxTry(d, pat, k, pos, len + step, step, caps)

\* String.prototype.match without the g flag: the leftmost match.
RECURSIVE RxSearchFrom(_, _, _)
RxSearchFrom(d, pat, start) ==
    IF start > Len(d) + 1 THEN RxFail
    ELSE IF RxMatch(d, pat, 1, start, NoCaptures).ok THEN RxMatch(d, pat, 1, start, NoCaptures)
    ELSE RxSearchFrom(d, pat, start + 1)

RxSearch(d, pat) == RxSearchFrom(d, pat, 1)

\* /(Upgrade|Downgrade)\s+(.+?)\s+from\s+.+?\s+to\s+(.+?)$/
UpgradePattern ==
    << RxLit({"Upgrade", "Downgrade"}), RxSpaces, RxLazy(2), RxSpaces, RxLit({"from"}),
       RxSpaces, RxLazy(0), RxSpaces, RxLit({"to"}), RxSpaces, RxLazy(3), RxEnd >>

\* /Install\s+(.+?)@(.+?)\s+/
InstallPattern ==
    << RxLit({"Install"}), RxSpaces, RxLazy(1), RxLit({"@"}), RxLazy(2), RxSpaces >>

\* Mutant of NotParsed: a description that matches no template is parsed as well.
ParsedAnyway == [found |-> TRUE, packageName |-> <<>>, newVersion |-> <<>>, isDev |-> FALSE]

NotParsed == [found |-> FALSE, packageName |-> <<>>, newVersion |-> <<>>, isDev |-> FALSE]

\* FixService.parseSolutionDescription(description); found = FALSE is null
parseSolutionDescription(description) ==
    LET upgradeMatch == RxSearch(description, UpgradePattern)
        installMatch == RxSearch(description, InstallPattern)
    IN  IF upgradeMatch.ok
        THEN [found |-> TRUE, packageName |-> upgradeMatch.caps[2],
              newVersion |-> upgradeMatch.caps[3], isDev |-> FALSE]
        ELSE IF installMatch.ok
        THEN [found |-> TRUE, packageName |-> installMatch.caps[1],
              newVersion |-> installMatch.caps[2], isDev |-> FALSE]
        ELSE NotParsed

\* FixResult; backupPath = 0 is an absent backupPath.
FixResult(success, message, backupPath) ==
    [success |-> success, message |-> message, backupPath |-> backupPath]

NoFixResult == FixResult(FALSE, "", 0)

\* package.json as the command finds it, and its content after a write that
\* run k completed (k) or that failed after the file was opened for writing (-k).
OriginalContent == 0
Written(k) == k
Truncated(k) == 0 - k

\* JSON.parse(packageJsonContent) succeeds
ParsesAsJson(content) == content >= 0

\* The command and the fix it runs: the description of the clicked solution, the
\* parsed details, the content of package.json, the backup of this invocation
\* (path and content), whether this invocation wrote package.json, the number of
\* terminals that were sent "npm install", and the FixResult.
NoFix ==
    [pc |-> "idle", runs |-> 0, description |-> <<>>, details |-> NotParsed,
     outcome |-> "", file |-> OriginalContent, backupPath |-> 0,
     backupContent |-> OriginalContent, written |-> FALSE, installs |-> 0,
     result |-> NoFixResult]

\* ------------------------------------------------------------------ SuggestionService

\* A PackageSuggestion.
Suggestion(packageName, suggestedVersion, reason, peerDependencies) ==
    [packageName |-> packageName, suggestedVersion |-> suggestedVersion,
     reason |-> reason, peerDependencies |-> peerDependencies]

\* `Package ${packageName} not found in npm registry`
NotFoundText(packageName) ==
    <<"Package", " ">> \o packageName \o <<" ">> \o Words(<<"not", "found", "in", "npm", "registry">>)

\* `No latest version found for ${packageName}`
NoLatestText(packageName) ==
    Words(<<"No", "latest", "version", "found", "for">>) \o <<" ">> \o packageName

\* rangesArray.join(", ")
RECURSIVE JoinRanges(_)
JoinRanges(ranges) ==
    IF ranges = <<>> THEN <<>>
    ELSE IF Len(ranges) = 1 THEN <<ranges[1]>>
    ELSE <<ranges[1], ",", " ">> \o JoinRanges(Tail(ranges))

\* `Conflicting peer dependency requirements for ${peerName}: ${rangesArray.join(", ")}`
PeerConflictText(peerName, ranges) ==
    Words(<<"Conflicting", "peer", "dependency", "requirements", "for">>) \o <<" ">>
        \o peerName \o <<":", " ">> \o JoinRanges(ranges)

\* `Error analyzing packages: ${error.message}`, for the TypeError of reading
\* .latest of an undefined "dist-tags"
ErrorText == Words(<<"Error", "analyzing", "packages:", "TypeError">>)

\* Set.prototype.add on an insertion-ordered set of ranges
AddRange(ranges, range) == IF Includes(ranges, range) THEN ranges ELSE Append(ranges, range)

\* The ranges peerDependencyMap holds for a peer name (none before its first).
RangesOf(peerMap, peerName) ==
    IF MapHas(peerMap, peerName) THEN peerMap[MapIndex(peerMap, peerName)].value ELSE <<>>

\* Object.keys(peerDeps).forEach: each range is added to the set of its peer name
RECURSIVE AddPeers(_, _)
AddPeers(peerMap, peerDeps) ==
    IF peerDeps = <<>> THEN peerMap
    ELSE AddPeers(MapSet(peerMap, Head(peerDeps).key,
                         AddRange(RangesOf(peerMap, Head(peerDeps).key), Head(peerDeps).value)),
                  Tail(peerDeps))

\* packageInfo.versions[latestVersion]?.peerDependencies || {}
PeersOfLatest(doc) ==
    IF MapHas(doc.versions, doc.latest)
    THEN doc.versions[MapIndex(doc.versions, doc.latest)].value.peerDependencies
    ELSE <<>>

\* The body of the loop over packageNames, the package's document being looked up.
\* su is [io, suggestions, conflicts, peerConflicts, peerMap, error]; error is
\* an exception on its way to the catch block of suggestCompatiblePackages.
ResolveRequested(su, packageName, info) ==
    IF Halted(info.io) THEN [su EXCEPT !.io = info.io]
    ELSE IF ~info.found
    THEN [su EXCEPT !.io = info.io, !.conflicts = Append(@, NotFoundText(packageName))]
    ELSE IF ~info.doc.distTags
    THEN [su EXCEPT !.io = info.io, !.error = TRUE]
    ELSE IF info.doc.latest = ""
    THEN [su EXCEPT !.io = info.io, !.conflicts = Append(@, NoLatestText(packageName))]
    ELSE [su EXCEPT !.io = info.io,
                    !.peerMap = AddPeers(@, PeersOfLatest(info.doc)),
                    !.suggestions = Append(@, Suggestion(packageName, info.doc.latest,
                                                         "Latest stable version",
                                                         PeersOfLatest(info.doc)))]

RequestedPackage(su, packageName) ==
    IF Halted(su.io) \/ su.error THEN su
    ELSE ResolveRequested(su, packageName, getPackageInfo(su.io, packageName))

\* Step 1: for (const packageName of packageNames)
RECURSIVE RequestedPackages(_, _)
RequestedPackages(su, packageNames) ==
    IF packageNames = <<>> THEN su
    ELSE RequestedPackages(RequestedPackage(su, Head(packageNames)), Tail(packageNames))

\* versionRanges.every((range) => semver.satisfies(version, range))
SatisfiesAll(version, ranges) == \A i \in 1..Len(ranges) : SemverSatisfies(version, ranges[i])

\* The first of the versions that satisfies every range ("" for null).
RECURSIVE FirstSatisfyingAll(_, _)
FirstSatisfyingAll(versions, ranges) ==
    IF versions = <<>> THEN ""
    ELSE IF SatisfiesAll(Head(versions), ranges) THEN Head(versions)
    ELSE FirstSatisfyingAll(Tail(versions), ranges)

CompatibleAmong(available, ranges) ==
    [io |-> available.io, version |-> FirstSatisfyingAll(available.versions, ranges)]

\* SuggestionService.findCompatibleVersion(packageName, versionRanges): [io, version]
findCompatibleVersion(io, packageName, ranges) ==
    CompatibleAmong(getAvailableVersions(io, packageName), ranges)

\* suggestions.some((s) => s.packageName === peerName)
Suggested(suggestions, packageName) ==
    \E i \in 1..Len(suggestions) : suggestions[i].packageName = packageName

\* The body of the loop over peerDependencyMap for a peer with several ranges.
ResolvePeer(su, peerName, ranges, found) ==
    IF Halted(found.io) THEN [su EXCEPT !.io = found.io]
    ELSE IF found.version = ""
    THEN [su EXCEPT !.io = found.io,
                    !.peerConflicts = Append(@, PeerConflictText(peerName, ranges))]
    ELSE IF Suggested(su.suggestions, peerName) THEN [su EXCEPT !.io = found.io]
    ELSE [su EXCEPT !.io = found.io,
                    !.suggestions = Append(@, Suggestion(peerName, found.version,
                                                         "Required peer dependency", <<>>))]

\* if (versionRanges.size > 1)
SeveralRanges(ranges) == Len(ranges) > 1

PeerRequirement(su, peerName, ranges) ==
    IF Halted(su.io) \/ su.error THEN su
    ELSE IF SeveralRanges(ranges)
    THEN ResolvePeer(su, peerName, ranges, findCompatibleVersion(su.io, peerName, ranges))
    ELSE su

\* Step 2: for (const [peerName, versionRanges] of peerDependencyMap)
RECURSIVE PeerRequirements(_, _)
PeerRequirements(su, entries) ==
    IF entries = <<>> THEN su
    ELSE PeerRequirements(PeerRequirement(su, Head(entries).key, Head(entries).value),
                          Tail(entries))

PeerRequirementsOf(su) == PeerRequirements(su, su.peerMap)

\* suggestions.map((s) => `${s.packageName}@${s.suggestedVersion}`).join(" ")
RECURSIVE PackagesText(_)
PackagesText(suggestions) ==
    IF suggestions = <<>> THEN <<>>
    ELSE Head(suggestions).packageName \o <<"@", Head(suggestions).suggestedVersion>>
         \o (IF Len(suggestions) > 1 THEN <<" ">> ELSE <<>>) \o PackagesText(Tail(suggestions))

\* SuggestionService.generateInstallCommand(suggestions)
generateInstallCommand(suggestions) ==
    IF Len(suggestions) = 0 THEN <<>>
    ELSE <<"npm", " ", "install", " ">> \o PackagesText(suggestions)

\* The CompatibilityResult returned, from the try block or from the catch block.
CompatibilityResult(su) ==
    IF su.error
    THEN [compatible |-> FALSE, suggestions |-> <<>>, conflicts |-> <<ErrorText>>,
          installCommand |-> <<>>]
    ELSE [compatible |-> Len(su.conflicts \o su.peerConflicts) = 0,
          suggestions |-> su.suggestions,
          conflicts |-> su.conflicts \o su.peerConflicts,
          installCommand |-> generateInstallCommand(su.suggestions)]

\* What the call has come to: suspended on a fetch, or resolved to its result.
SuggestionSettled(su) ==
    [status |-> IF su.io.blocked THEN "await" ELSE "done",
     awaiting |-> su.io.awaiting,
     result |-> CompatibilityResult(su),
     cache |-> su.io.cache]

\* SuggestionService.suggestCompatiblePackages(packageNames), run against the
\* cache as it was when the call started and the fetches completed since.
suggestCompatiblePackages(packageNames, startCache, fetched) ==
    SuggestionSettled(
        PeerRequirementsOf(
            RequestedPackages([io |-> Io(startCache, fetched), suggestions |-> <<>>,
                               conflicts |-> <<>>, peerConflicts |-> <<>>,
                               peerMap |-> <<>>, error |-> FALSE],
                              packageNames)))

\* { ...packageJson.dependencies, ...packageJson.devDependencies }
RECURSIVE Spread(_, _)
Spread(target, source) ==
    IF source = <<>> THEN target
    ELSE Spread(MapSet(target, Head(source).key, Head(source).value), Tail(source))

\* `${packageName} is ${majorDiff} major version(s) behind (current: ..., latest: ...)`
BehindIssue(packageName, majorDiff, current, latestVersion) ==
    [kind |-> "behind", packageName |-> packageName, majorDiff |-> majorDiff,
     current |-> current, latest |-> latestVersion]

\* `Error analyzing existing packages: ...`
AuditErrorIssue ==
    [kind |-> "error", packageName |-> <<>>, majorDiff |-> 0, current |-> <<>>, latest |-> ""]

\* `Update from ${cleanCurrentVersion} to latest version`, with the recommendation
Recommendation(packageName, doc, current) ==
    [packageName |-> packageName, suggestedVersion |-> doc.latest,
     reason |-> [update |-> current], peerDependencies |-> PeersOfLatest(doc)]

\* The body of the loop once the version was coerced: lines 200-219.
CheckOutdated(au, packageName, doc, clean) ==
    IF clean = <<>> THEN au
    ELSE IF ~SemverValid(doc.latest) THEN [au EXCEPT !.error = TRUE]
    ELSE IF CompareParsed(clean, SemverParse(doc.latest)) < 0
            /\ SemverMajor(doc.latest) - clean[1] > 0
    THEN [au EXCEPT !.issues = Append(@, BehindIssue(packageName,
                                                     SemverMajor(doc.latest) - clean[1],
                                                     clean, doc.latest)),
                    !.recommendations = Append(@, Recommendation(packageName, doc, clean))]
    ELSE au

\* The body of the loop after getPackageInfo: lines 189-199.
AuditLookedUp(au, packageName, currentVersion, info) ==
    IF Halted(info.io) \/ ~info.found THEN [au EXCEPT !.io = info.io]
    ELSE IF ~info.doc.distTags THEN [au EXCEPT !.io = info.io, !.error = TRUE]
    ELSE IF info.doc.latest = "" THEN [au EXCEPT !.io = info.io]
    ELSE CheckOutdated([au EXCEPT !.io = info.io], packageName, info.doc,
                       SemverCoerce(currentVersion))

AuditPackage(au, entry) ==
    IF Halted(au.io) \/ au.error THEN au
    ELSE AuditLookedUp(au, entry.key, entry.value, getPackageInfo(au.io, entry.key))

\* for (const [packageName, currentVersion] of Object.entries(dependencies))
RECURSIVE AuditPackages(_, _)
AuditPackages(au, dependencies) ==
    IF dependencies = <<>> THEN au
    ELSE AuditPackages(AuditPackage(au, Head(dependencies)), Tail(dependencies))

NoAuditResult == [issues |-> <<>>, recommendations |-> <<>>]

\* What the call has come to: suspended on a fetch, or resolved to its result;
\* the catch block adds its issue to those recorded before the throw.
AuditSettled(au) ==
    [status |-> IF au.io.blocked THEN "await" ELSE "done",
     awaiting |-> au.io.awaiting,
     result |-> [issues |-> IF au.error THEN Append(au.issues, AuditErrorIssue) ELSE au.issues,
                 recommendations |-> au.recommendations],
     cache |-> au.io.cache]

\* SuggestionService.analyzeExistingPackages(packageJson), run against the cache
\* as it was when the call started and the fetches completed since.
analyzeExistingPackages(pj, startCache, fetched) ==
    AuditSettled(
        AuditPackages([io |-> Io(startCache, fetched), issues |-> <<>>,
                       recommendations |-> <<>>, error |-> FALSE],
                      Spread(Spread(<<>>, pj.dependencies), pj.devDependencies)))

\* String.prototype.split(separator): the pieces of text, piece being the one in progress.
RECURSIVE SplitAt(_, _, _)
SplitAt(text, separator, piece) ==
    IF text = <<>> THEN <<piece>>
    ELSE IF Head(text) = separator
    THEN <<piece>> \o SplitAt(Tail(text), separator, <<>>)
    ELSE SplitAt(Tail(text), separator, Append(piece, Head(text)))

\* String.prototype.trim
RECURSIVE TrimStart(_)
TrimStart(text) ==
    IF text # <<>> /\ Head(text) \in Whitespace THEN TrimStart(Tail(text)) ELSE text

RECURSIVE TrimEnd(_)
TrimEnd(text) ==
    IF text # <<>> /\ text[Len(text)] \in Whitespace
    THEN TrimEnd(SubSeq(text, 1, Len(text) - 1)) ELSE text

Trim(text) == TrimEnd(TrimStart(text))

\* .map((pkg) => pkg.trim()).filter((pkg) => pkg.length > 0).map((pkg) => pkg.split("@")[0])
RECURSIVE PackageNames(_)
PackageNames(pieces) ==
    IF pieces = <<>> THEN <<>>
    ELSE (IF Trim(Head(pieces)) = <<>> THEN <<>>
          ELSE <<SplitAt(Trim(Head(pieces)), "@", <<>>)[1]>>) \o PackageNames(Tail(pieces))

\* SuggestionService.parsePackageList(input)
parsePackageList(input) == PackageNames(SplitAt(input, ",", <<>>))

\* ------------------------------------------------------------------ inputs

Name(n) == <<n>>
Scoped(scope, n) == <<"@", scope, "/", n>>

\* node_modules/<name>
Top(name) == <<NM, "/">> \o name
\* <parent>/node_modules/<name>
Under(parent, name) == parent \o <<"/", NM, "/">> \o name

Dep(name) == [key |-> name, value |-> "*"]

Entry(path, version, deps, peers) ==
    [key |-> path,
     value |-> [version |-> version, dependencies |-> deps, peerDependencies |-> peers]]

\* The lockfile entries the graph specification draws from.
GraphEntries ==
    { Entry(<<>>, "", <<Dep(Name("a")), Dep(Name("c"))>>, <<>>),
      Entry(Top(Name("a")), "1.0.0", <<Dep(Name("b")), Dep(Name("c"))>>, <<>>),
      Entry(Top(Name("b")), "1.0.0", <<Dep(Name("c"))>>, <<>>),
      Entry(Top(Name("c")), "1.0.0", <<Dep(Name("a"))>>, <<>>),
      Entry(Under(Top(Name("a")), Name("b")), "1.0.0", <<Dep(Name("c"))>>, <<>>),
      Entry(Under(Top(Name("a")), Name("c")), "2.0.0", <<>>, <<>>),
      Entry(Under(Under(Top(Name("a")), Name("b")), Name("c")), "3.0.0", <<>>, <<>>),
      Entry(Under(Under(Top(Name("a")), Name("a")), Name("b")), "1.0.0", <<Dep(Name("c"))>>, <<>>),
      Entry(Under(Under(Top(Name("a")), Name("a")), Name("c")), "4.0.0", <<>>, <<>>),
      Entry(Under(Top(Name("a")), Scoped("s", "b")), "1.0.0", <<Dep(Name("c"))>>, <<>>),
      Entry(Top(Scoped("s", "b")), "1.0.0", <<>>, <<>>) }

\* A JSON object has each key once.
DistinctKeys(entries) ==
    \A i, j \in 1..Len(entries) : entries[i].key = entries[j].key => i = j

PackageMaps(universe) ==
    { m \in UNION { [1..n -> universe] : n \in 0..MaxPackages } : DistinctKeys(m) }

Lockfiles(universe) ==
    { [hasLockfileVersion |-> hv, lockfileVersion |-> v, hasPackages |-> hp, packages |-> m] :
        hv \in BOOLEAN, v \in 0..3, hp \in BOOLEAN, m \in PackageMaps(universe) }

\* Documents that differ only in a field the code never reads are one input.
Canonical(lock) ==
    /\ (~lock.hasLockfileVersion => lock.lockfileVersion = 0)
    /\ (~lock.hasPackages => lock.packages = <<>>)

GraphManifests ==
    { [name |-> Name("app"), version |-> "1.0.0", devDependencies |-> <<>>],
      [name |-> <<>>, version |-> "",
       devDependencies |-> <<Dep(Name("b")), Dep(Scoped("s", "b"))>>] }

\* The lockfile entries the analyzer specification draws from, besides the root.
AnalyzerEntries ==
    { Entry(Top(Name("react")), "17.2.0", <<>>, <<>>),
      Entry(Top(Name("react")), "18.0.0", <<>>, <<>>),
      Entry(Top(Name("react")), "", <<>>, <<>>),
      Entry(Under(Top(Name("x")), Name("react")), "16.8.0", <<>>, <<>>),
      Entry(Under(Top(Name("x")), Name("react")), "17.0.0", <<>>, <<>>),
      Entry(Under(Top(Name("y")), Name("react")), "17.0.2", <<>>, <<>>),
      Entry(Top(Name("x")), "1.0.0", <<Dep(Name("react"))>>,
            <<[key |-> Name("react"), value |-> "^17.0.0"]>>),
      Entry(Top(Name("y")), "1.0.0", <<>>,
            <<[key |-> Scoped("angular", "core"), value |-> "^16.0.0"],
              [key |-> Name("react"), value |-> "^17.0.0"]>>),
      Entry(Top(Scoped("types", "react")), "18.0.0", <<>>, <<>>),
      Entry(Top(Scoped("angular", "core")), "16.0.0", <<>>, <<>>),
      Entry(Under(Top(Name("x")), Scoped("angular", "core")), "15.0.0", <<>>, <<>>) }

\* The root entry of an analyzed lockfile; its peer range is met by no installed react.
AnalyzerRoot ==
    Entry(<<>>, "", <<Dep(Name("x")), Dep(Name("react"))>>,
          <<[key |-> Name("react"), value |-> "^19.0.0"]>>)

InstalledMaps ==
    { m \in UNION { [1..n -> AnalyzerEntries] : n \in 0..MaxInstalled } : DistinctKeys(m) }

AnalyzerLockfiles ==
    { [hasLockfileVersion |-> TRUE, lockfileVersion |-> 3, hasPackages |-> TRUE,
       packages |-> <<AnalyzerRoot>> \o m] : m \in InstalledMaps }

\* The lockfile entries the ordering specification draws from: two singletons in
\* two major versions each and two packages with peer dependencies.
OrderingEntries ==
    { Entry(Top(Name("react")), "18.0.0", <<>>, <<>>),
      Entry(Under(Top(Name("x")), Name("react")), "16.8.0", <<>>, <<>>),
      Entry(Top(Name("lodash")), "4.0.0", <<>>, <<>>),
      Entry(Under(Top(Name("x")), Name("lodash")), "3.0.0", <<>>, <<>>),
      Entry(Top(Name("x")), "1.0.0", <<Dep(Name("react")), Dep(Name("lodash"))>>,
            <<[key |-> Name("react"), value |-> "^17.0.0"]>>),
      Entry(Top(Name("y")), "1.0.0", <<>>,
            <<[key |-> Scoped("angular", "core"), value |-> "^16.0.0"],
              [key |-> Name("react"), value |-> "^17.0.0"]>>) }

OrderingLockfiles ==
    { [hasLockfileVersion |-> TRUE, lockfileVersion |-> 3, hasPackages |-> TRUE,
       packages |-> <<AnalyzerRoot>> \o m] :
        m \in { q \in UNION { [1..n -> OrderingEntries] : n \in 0..MaxOrdered } : DistinctKeys(q) } }

\* NpmService.cache after an earlier scan has fetched react's document.
WarmCache == <<Registry[1]>>

RescannedLockfiles ==
    { [hasLockfileVersion |-> TRUE, lockfileVersion |-> 3, hasPackages |-> TRUE,
       packages |-> <<AnalyzerRoot>> \o m] :
        m \in { q \in UNION { [1..n -> AnalyzerEntries] : n \in 0..MaxRescanned } : DistinctKeys(q) } }

\* The names a request is made of: react, packages with a peer dependency on
\* react, a package without a latest tag, an unpublished one, and an unknown one.
RequestNames ==
    { Name("react"), Name("ui16"), Name("ui17"), Name("ui17b"),
      Name("untagged"), Name("gone"), Name("nosuch") }

Requests == UNION { [1..n -> RequestNames] : n \in 1..MaxRequested }

\* The descriptions of the solution items the command is run on: the texts
\* AnalyzerService generates, texts that miss a part of a template, and every
\* text "Install " followed by up to MaxTail tokens.
FixNames == { Name("react"), Scoped("angular", "core") }

GeneratedDescriptions ==
    UNION { { UpgradeText(n, "17.0.2", "18.2.0"), DowngradeText(n, "18.2.0", "17.0.2"),
              InstallCompatibleText(n, "18.2.0"), InstallLatestText(n, "18.2.0"),
              ConsolidateText(n, "18.2.0"), UpgradeAllText(n, "18.2.0") } : n \in FixNames }

NearDescriptions ==
    { <<>>,
      <<"Install", " ", "react", "@", "18.2.0">>,
      <<"Install", " ", "react", " ", "now">>,
      <<"install", " ", "react", "@", "18.2.0", " ", "now">>,
      <<"Upgrade", " ", "react", " ", "from", " ", "17.0.2">>,
      <<"Upgrade", " ", "react", " ", "to", " ", "18.2.0">>,
      <<"Upgrade", " ", "react", " ", "from", " ", "17.0.2", " ", "to", " ", "18.2.0", "\n">>,
      <<"Upgrade", " ", "re", "\n", "act", " ", "from", " ", "17.0.2", " ", "to", " ", "18.2.0">>,
      <<"Upgrade", "\n", "react", "\n", "from", " ", " ", "17.0.2", " ", "to", " ", "18.2.0">>,
      <<"Please", " ", "Downgrade", " ", "react", " ", "from", " ", "18.2.0", " ", "to", " ", "17.0.2">>,
      <<"Upgrade", " ", "to", " ", "from", " ", "to", " ", "to", " ", "from", " ", "to", " ", "1.0.0">>,
      <<"Upgrade", " ", "react", "@", "18.2.0", " ", "or", " ", "Install", " ", "react", "@", "17.0.2", " ", "now">> }

TailTokens == { "react", "@", " " }

Tails == UNION { [1..n -> TailTokens] : n \in 1..MaxTail }

FixDescriptions ==
    GeneratedDescriptions \cup NearDescriptions \cup { <<"Install", " ">> \o t : t \in Tails }

\* The manifests the audit is run on.
AuditedDependencies ==
    { [key |-> Name("react"), value |-> "^17.0.2"], [key |-> Name("react"), value |-> "18.2.0"],
      [key |-> Name("react"), value |-> "*"],       [key |-> Name("lodash"), value |-> "3.0.0"],
      [key |-> Name("lodash"), value |-> "4.0.0"],  [key |-> Name("ui16"), value |-> "^16.0.0"],
      [key |-> Name("untagged"), value |-> "0.0.0"], [key |-> Name("gone"), value |-> "1.0.0"],
      [key |-> Name("nosuch"), value |-> "1.0.0"] }

AuditedDevDependencies ==
    { [key |-> Name("react"), value |-> "16.8.0"], [key |-> Name("lodash"), value |-> "4.0.0"] }

AuditedManifests ==
    { [dependencies |-> d, devDependencies |-> v] :
        d \in { m \in UNION { [1..n -> AuditedDependencies] : n \in 0..MaxAudited } : DistinctKeys(m) },
        v \in { m \in UNION { [1..n -> AuditedDevDependencies] : n \in 0..1 } : DistinctKeys(m) } }

\* The texts typed into the input box of suggestPackages.
InputTokens == { ",", " ", "@", "react", "scope/pkg", "1.0.0" }

PackageLists == UNION { [1..n -> InputTokens] : n \in 0..MaxInput }

AnalyzerManifests == { [name |-> Name("app"), version |-> "1.0.0", devDependencies |-> <<>>] }

\* ------------------------------------------------------------------ the scan

NoScan == [startCache |-> <<>>, fetched |-> <<>>]
NoConflicts == [status |-> "none", list |-> <<>>]
NoPrevious == [scans |-> 0, status |-> "none", startCache |-> <<>>, list |-> <<>>]
NoResult == [compatible |-> FALSE, suggestions |-> <<>>, conflicts |-> <<>>, installCommand |-> <<>>]
NoSuggestion ==
    [status |-> "idle", request |-> <<>>, startCache |-> <<>>, fetched |-> <<>>,
     result |-> NoResult]
NotApplied == [status |-> "none", conflict |-> 0, solution |-> 0, details |-> NotParsed]

NoAudit ==
    [status |-> "idle", packageJson |-> [dependencies |-> <<>>, devDependencies |-> <<>>],
     startCache |-> <<>>, fetched |-> <<>>, result |-> NoAuditResult]

NoList == [input |-> <<>>, parsed |-> FALSE, packageNames |-> <<>>]

Init ==
    /\ packageJson \in GraphManifests
    /\ packageLockJson \in { l \in Lockfiles(GraphEntries) : Canonical(l) }
    /\ graph = NoGraph
    /\ cache = <<>>
    /\ scan = NoScan
    /\ conflicts = NoConflicts
    /\ applied = NotApplied
    /\ previous = NoPrevious
    /\ calls = <<>>
    /\ suggest = NoSuggestion
    /\ stats = NoStats
    /\ fix = NoFix
    /\ audit = NoAudit
    /\ typed = NoList
    /\ pc = "start"

InitAnalyzer ==
    /\ packageJson \in AnalyzerManifests
    /\ packageLockJson \in AnalyzerLockfiles
    /\ graph = NoGraph
    /\ cache = <<>>
    /\ scan = NoScan
    /\ conflicts = NoConflicts
    /\ applied = NotApplied
    /\ previous = NoPrevious
    /\ calls = <<>>
    /\ suggest = NoSuggestion
    /\ stats = NoStats
    /\ fix = NoFix
    /\ audit = NoAudit
    /\ typed = NoList
    /\ pc = "start"

InitOrdering ==
    /\ packageJson \in AnalyzerManifests
    /\ packageLockJson \in OrderingLockfiles
    /\ graph = NoGraph
    /\ cache = WarmCache
    /\ scan = NoScan
    /\ conflicts = NoConflicts
    /\ applied = NotApplied
    /\ previous = NoPrevious
    /\ calls = <<>>
    /\ suggest = NoSuggestion
    /\ stats = NoStats
    /\ fix = NoFix
    /\ audit = NoAudit
    /\ typed = NoList
    /\ pc = "start"

\* A project scanned with NpmService.cache empty or holding every registry document.
InitRescan ==
    /\ packageJson \in AnalyzerManifests
    /\ packageLockJson \in RescannedLockfiles
    /\ graph = NoGraph
    /\ cache \in {<<>>, Registry}
    /\ scan = NoScan
    /\ conflicts = NoConflicts
    /\ applied = NotApplied
    /\ previous = NoPrevious
    /\ calls = <<>>
    /\ suggest = NoSuggestion
    /\ stats = NoStats
    /\ fix = NoFix
    /\ audit = NoAudit
    /\ typed = NoList
    /\ pc = "start"

\* scanProject: const graph = GraphService.buildGraph(packageJson, packageLockJson)
BuildGraph ==
    /\ pc = "start"
    /\ graph' = buildGraph(packageJson, packageLockJson)
    /\ pc' = IF graph'.status = "ok" THEN "built" ELSE "failed"
    /\ UNCHANGED <<packageJson, packageLockJson, cache, scan, conflicts, applied, previous, calls, suggest, stats, fix, audit, typed>>

\* getGraphStats(graph) on the graph that buildGraph returned.
GetGraphStats ==
    /\ pc = "built"
    /\ stats' = getGraphStats(graph)
    /\ pc' = "counted"
    /\ UNCHANGED <<packageJson, packageLockJson, graph, cache, scan, conflicts, applied, previous, calls, suggest, fix, audit, typed>>

\* The findConflicts call in progress, as far as its completed fetches take it.
Running == findConflicts(graph, scan.startCache, scan.fetched)

\* scanProject: AnalyzerService.findConflicts(graph) is called.
FindConflictsCall ==
    /\ pc = "built"
    /\ scan' = [startCache |-> cache, fetched |-> <<>>]
    /\ pc' = "analyzing"
    /\ UNCHANGED <<packageJson, packageLockJson, graph, cache, conflicts, applied, previous, calls, suggest, stats, fix, audit, typed>>

\* The fetch getPackageInfo awaits completes; the scan runs on to its next fetch.
FetchCompletes ==
    /\ pc = "analyzing"
    /\ \E run \in {Running} :
          /\ run.status = "await"
          /\ \E outcome \in FetchOutcomes :
                /\ (outcome = "ok" => RegistryHas(run.awaiting))
                /\ scan' = [scan EXCEPT !.fetched = Append(@, FetchStores(outcome))]
                /\ cache' = IF FetchStores(outcome)
                            THEN StoreResponse(cache, run.awaiting, RegistryDoc(run.awaiting))
                            ELSE cache
    /\ UNCHANGED <<packageJson, packageLockJson, graph, conflicts, applied, pc, previous, calls, suggest, stats, fix, audit, typed>>

\* findConflicts settles: it resolves to the conflict list or rejects.
FindConflictsSettles ==
    /\ pc = "analyzing"
    /\ \E run \in {Running} :
          /\ run.status # "await"
          /\ conflicts' = [status |-> run.status, list |-> run.conflicts]
          /\ pc' = IF run.status = "done" THEN "analyzed" ELSE "rejected"
    /\ UNCHANGED <<packageJson, packageLockJson, graph, cache, scan, applied, previous, calls, suggest, stats, fix, audit, typed>>

\* deps-harmony.applySolution on one solution of the conflicts shown, up to its
\* confirmation dialog: the description is parsed, and an unparseable one ends
\* the command with an error message.
ApplySolution ==
    /\ pc = "analyzed"
    /\ \E c \in 1..Len(conflicts.list) : \E s \in 1..Len(conflicts.list[c].solutions) :
          \E details \in {parseSolutionDescription(conflicts.list[c].solutions[s].description)} :
              applied' = [status |-> IF details.found THEN "parsed" ELSE "unparseable",
                          conflict |-> c, solution |-> s, details |-> details]
    /\ UNCHANGED <<packageJson, packageLockJson, graph, cache, scan, conflicts, pc, previous, calls, suggest, stats, fix, audit, typed>>

\* deps-harmony.scanProject run again on the unchanged project: the same graph is
\* built and AnalyzerService.findConflicts is called on it once more.
ScanAgain ==
    /\ pc = "analyzed"
    /\ previous.scans + 1 < MaxScans
    /\ previous' = [scans |-> previous.scans + 1, status |-> conflicts.status,
                    startCache |-> scan.startCache, list |-> conflicts.list]
    /\ scan' = [startCache |-> cache, fetched |-> <<>>]
    /\ conflicts' = NoConflicts
    /\ applied' = NotApplied
    /\ pc' = "analyzing"
    /\ UNCHANGED <<packageJson, packageLockJson, graph, cache, calls, suggest, stats, fix, audit, typed>>

\* The package names getPackageInfo is called with.
NpmNames == { Name("react"), Scoped("angular", "core") }

\* A getPackageInfo call suspended on its fetch.
FetchingCall(packageName) ==
    [name |-> packageName, state |-> "fetching", requested |-> TRUE, outcome |-> "",
     found |-> FALSE, doc |-> NoDocument, abandoned |-> FALSE]

\* A getPackageInfo call answered from the cache.
CachedCall(packageName, doc) ==
    [name |-> packageName, state |-> "returned", requested |-> FALSE, outcome |-> "",
     found |-> TRUE, doc |-> doc, abandoned |-> FALSE]

\* NpmService.getPackageInfo(packageName) is called: it returns the cached
\* document, or issues the request and suspends.
GetPackageInfoCall ==
    /\ pc = "start"
    /\ Len(calls) < MaxCalls
    /\ \E packageName \in NpmNames :
          calls' = Append(calls,
                          IF CacheHit(cache, packageName)
                          THEN CachedCall(packageName, cache[MapIndex(cache, packageName)].value)
                          ELSE FetchingCall(packageName))
    /\ UNCHANGED <<packageJson, packageLockJson, graph, cache, scan, conflicts, applied,
                   previous, pc, suggest, stats, fix, audit, typed>>

\* The request of a suspended getPackageInfo call completes, whether or not its
\* caller still awaits it: the document is cached and returned, or null is returned.
GetPackageInfoSettles ==
    /\ pc = "start"
    /\ \E k \in 1..Len(calls) : \E outcome \in FetchOutcomes :
          /\ calls[k].state = "fetching"
          /\ (outcome = "ok" => RegistryHas(calls[k].name))
          /\ calls' = [calls EXCEPT ![k].state = "returned", ![k].outcome = outcome,
                                    ![k].found = FetchStores(outcome),
                                    ![k].doc = IF FetchStores(outcome)
                                               THEN RegistryDoc(calls[k].name) ELSE NoDocument]
          /\ cache' = IF FetchStores(outcome)
                      THEN StoreResponse(cache, calls[k].name, RegistryDoc(calls[k].name))
                      ELSE cache
    /\ UNCHANGED <<packageJson, packageLockJson, graph, scan, conflicts, applied, previous, pc, suggest, stats, fix, audit, typed>>

\* The caller of a suspended getPackageInfo call stops waiting for it (its scan is
\* abandoned); nothing cancels the request.
AbandonCall ==
    /\ pc = "start"
    /\ \E k \in 1..Len(calls) :
          /\ calls[k].state = "fetching"
          /\ ~calls[k].abandoned
          /\ calls' = [calls EXCEPT ![k].abandoned = TRUE]
    /\ UNCHANGED <<packageJson, packageLockJson, graph, cache, scan, conflicts, applied,
                   previous, pc, suggest, stats, fix, audit, typed>>

\* NpmService.clearCache()
ClearCache ==
    /\ pc = "start"
    /\ cache # <<>>
    /\ cache' = <<>>
    /\ UNCHANGED <<packageJson, packageLockJson, graph, scan, conflicts, applied, previous,
                   pc, calls, suggest, stats, fix, audit, typed>>

\* deps-harmony.suggestPackages: SuggestionService.suggestCompatiblePackages is called.
SuggestPackagesCall ==
    /\ pc = "start"
    /\ suggest.status = "idle"
    /\ \E packageNames \in Requests :
          suggest' = [status |-> "running", request |-> packageNames, startCache |-> cache,
                      fetched |-> <<>>, result |-> NoResult]
    /\ UNCHANGED <<packageJson, packageLockJson, graph, cache, scan, conflicts, applied,
                   previous, calls, pc, stats, fix, audit, typed>>

\* The suggestCompatiblePackages call in progress, as far as its fetches take it.
Suggesting == suggestCompatiblePackages(suggest.request, suggest.startCache, suggest.fetched)

\* The fetch the suggestion call awaits completes; the call runs on to its next fetch.
SuggestFetchCompletes ==
    /\ suggest.status = "running"
    /\ \E run \in {Suggesting} :
          /\ run.status = "await"
          /\ \E outcome \in FetchOutcomes :
                /\ (outcome = "ok" => RegistryHas(run.awaiting))
                /\ suggest' = [suggest EXCEPT !.fetched = Append(@, FetchStores(outcome))]
                /\ cache' = IF FetchStores(outcome)
                            THEN StoreResponse(cache, run.awaiting, RegistryDoc(run.awaiting))
                            ELSE cache
    /\ UNCHANGED <<packageJson, packageLockJson, graph, scan, conflicts, applied, previous,
                   calls, pc, stats, fix, audit, typed>>

\* suggestCompatiblePackages resolves to its CompatibilityResult.
SuggestSettles ==
    /\ suggest.status = "running"
    /\ \E run \in {Suggesting} :
          /\ run.status = "done"
          /\ suggest' = [suggest EXCEPT !.status = "done", !.result = run.result]
    /\ UNCHANGED <<packageJson, packageLockJson, graph, cache, scan, conflicts, applied,
                   previous, calls, pc, stats, fix, audit, typed>>

\* The deps-harmony.applySolution command up to its first await: the description
\* is parsed; null ends the command with an error message.
ApplySolutionCommand ==
    /\ fix.pc \in {"idle", "done"}
    /\ fix.runs < MaxFixes
    /\ \E details \in {parseSolutionDescription(fix.description)} :
           fix' = [fix EXCEPT !.pc = IF details.found THEN "confirm" ELSE "done",
                              !.runs = @ + 1,
                              !.details = details,
                              !.outcome = IF details.found THEN "" ELSE "unparseable",
                              !.backupPath = 0,
                              !.written = FALSE,
                              !.result = NoFixResult]
    /\ UNCHANGED <<packageJson, packageLockJson, graph, cache, scan, conflicts, applied, pc, previous, calls, suggest, stats, audit, typed>>

\* The confirmation dialog is answered; on "Apply Fix" applyDependencyFix runs
\* up to the copyFile of createBackup.
ConfirmationAnswered ==
    /\ fix.pc = "confirm"
    /\ \E choice \in {"Apply Fix", "Cancel"}, projectRoot \in BOOLEAN :
           fix' = IF choice # "Apply Fix"
                  THEN [fix EXCEPT !.pc = "done", !.outcome = "cancelled"]
                  ELSE IF ~projectRoot
                  THEN [fix EXCEPT !.pc = "done", !.outcome = "failed",
                                   !.result = FixResult(FALSE, "No workspace folder found", 0)]
                  ELSE [fix EXCEPT !.pc = "backup"]
    /\ UNCHANGED <<packageJson, packageLockJson, graph, cache, scan, conflicts, applied, pc, previous, calls, suggest, stats, audit, typed>>

\* createBackup: copyFile completes; on success modifyPackageJson starts reading.
BackupCompletes ==
    /\ fix.pc = "backup"
    /\ \E copied \in BOOLEAN :
           fix' = IF copied
                  THEN [fix EXCEPT !.pc = "read", !.backupPath = fix.runs,
                                   !.backupContent = fix.file]
                  ELSE [fix EXCEPT !.pc = "done", !.outcome = "failed",
                                   !.result = FixResult(FALSE, "Failed to create backup", 0)]
    /\ UNCHANGED <<packageJson, packageLockJson, graph, cache, scan, conflicts, applied, pc, previous, calls, suggest, stats, audit, typed>>

\* modifyPackageJson: readFile completes and the content is parsed and updated.
ReadCompletes ==
    /\ fix.pc = "read"
    /\ \E read \in BOOLEAN :
           fix' = IF read /\ ParsesAsJson(fix.file)
                  THEN [fix EXCEPT !.pc = "write"]
                  ELSE [fix EXCEPT !.pc = "done", !.outcome = "failed",
                                   !.result = FixResult(FALSE, "Failed to modify package.json", 0)]
    /\ UNCHANGED <<packageJson, packageLockJson, graph, cache, scan, conflicts, applied, pc, previous, calls, suggest, stats, audit, typed>>

\* modifyPackageJson: writeFile completes.  After a successful write
\* runNpmInstall creates the terminal and sends "npm install"; when that throws,
\* restoreBackup starts its copyFile.
WriteCompletes ==
    /\ fix.pc = "write"
    /\ \E written \in BOOLEAN, opened \in BOOLEAN, terminal \in BOOLEAN :
           fix' = IF ~written
                  THEN [fix EXCEPT !.pc = "done", !.outcome = "failed",
                                   !.file = IF opened THEN Truncated(fix.runs) ELSE @,
                                   !.result = FixResult(FALSE, "Failed to modify package.json", 0)]
                  ELSE IF terminal
                  THEN [fix EXCEPT !.pc = "installing", !.file = Written(fix.runs),
                                   !.written = TRUE, !.installs = @ + 1]
                  ELSE [fix EXCEPT !.pc = "restore", !.file = Written(fix.runs),
                                   !.written = TRUE]
    /\ UNCHANGED <<packageJson, packageLockJson, graph, cache, scan, conflicts, applied, pc, previous, calls, suggest, stats, audit, typed>>

\* runNpmInstall: the timer resolves the promise with success.
InstallResolves ==
    /\ fix.pc = "installing"
    /\ fix' = [fix EXCEPT !.pc = "done", !.outcome = "applied",
                          !.result = FixResult(TRUE, "Successfully updated", fix.backupPath)]
    /\ UNCHANGED <<packageJson, packageLockJson, graph, cache, scan, conflicts, applied, pc, previous, calls, suggest, stats, audit, typed>>

\* restoreBackup: copyFile completes; its result is not looked at.
RestoreCompletes ==
    /\ fix.pc = "restore"
    /\ \E copied \in BOOLEAN :
           fix' = [fix EXCEPT !.pc = "done", !.outcome = "failed",
                              !.file = IF copied THEN fix.backupContent ELSE @,
                              !.result = FixResult(FALSE, "Failed to run npm install", 0)]
    /\ UNCHANGED <<packageJson, packageLockJson, graph, cache, scan, conflicts, applied, pc, previous, calls, suggest, stats, audit, typed>>

\* analyzeExistingPackages(packageJson) is called.
AnalyzeExistingCall ==
    /\ audit.status = "idle"
    /\ \E pj \in AuditedManifests :
          audit' = [status |-> "running", packageJson |-> pj, startCache |-> cache,
                    fetched |-> <<>>, result |-> NoAuditResult]
    /\ UNCHANGED <<packageJson, packageLockJson, graph, cache, scan, conflicts, applied, pc, previous, calls, suggest, stats, fix, typed>>

\* The analyzeExistingPackages call in progress, as far as its fetches take it.
Auditing == analyzeExistingPackages(audit.packageJson, audit.startCache, audit.fetched)

\* The fetch the audit awaits completes; the call runs on to its next fetch.
AuditFetchCompletes ==
    /\ audit.status = "running"
    /\ \E run \in {Auditing} :
          /\ run.status = "await"
          /\ \E outcome \in FetchOutcomes :
                /\ (outcome = "ok" => RegistryHas(run.awaiting))
                /\ audit' = [audit EXCEPT !.fetched = Append(@, FetchStores(outcome))]
                /\ cache' = IF FetchStores(outcome)
                            THEN StoreResponse(cache, run.awaiting, RegistryDoc(run.awaiting))
                            ELSE cache
    /\ UNCHANGED <<packageJson, packageLockJson, graph, scan, conflicts, applied, pc, previous, calls, suggest, stats, fix, typed>>

\* analyzeExistingPackages resolves to its issues and recommendations.
AuditSettles ==
    /\ audit.status = "running"
    /\ \E run \in {Auditing} :
          /\ run.status = "done"
          /\ audit' = [audit EXCEPT !.status = "done", !.result = run.result]
    /\ UNCHANGED <<packageJson, packageLockJson, graph, cache, scan, conflicts, applied, pc, previous, calls, suggest, stats, fix, typed>>

\* suggestPackages: the text of the input box is parsed.
ParsePackageList ==
    /\ ~typed.parsed
    /\ typed' = [typed EXCEPT !.parsed = TRUE, !.packageNames = parsePackageList(typed.input)]
    /\ UNCHANGED <<packageJson, packageLockJson, graph, cache, scan, conflicts, applied, pc, previous, calls, suggest, stats, fix, audit>>

Next == BuildGraph \/ GetGraphStats

NextAnalyzer ==
    \/ BuildGraph
    \/ FindConflictsCall
    \/ FetchCompletes
    \/ FindConflictsSettles
    \/ ApplySolution

Spec == Init /\ [][Next]_vars

SpecAnalyzer == InitAnalyzer /\ [][NextAnalyzer]_vars

SpecOrdering == InitOrdering /\ [][NextAnalyzer]_vars

\* NpmService called directly, before any scan.
InitNpm ==
    /\ packageJson \in AnalyzerManifests
    /\ packageLockJson = [hasLockfileVersion |-> TRUE, lockfileVersion |-> 3,
                          hasPackages |-> TRUE, packages |-> <<AnalyzerRoot>>]
    /\ graph = NoGraph
    /\ cache = <<>>
    /\ scan = NoScan
    /\ conflicts = NoConflicts
    /\ applied = NotApplied
    /\ previous = NoPrevious
    /\ calls = <<>>
    /\ suggest = NoSuggestion
    /\ stats = NoStats
    /\ fix = NoFix
    /\ audit = NoAudit
    /\ typed = NoList
    /\ pc = "start"

NextNpm ==
    \/ GetPackageInfoCall
    \/ GetPackageInfoSettles
    \/ AbandonCall
    \/ ClearCache

SpecNpm == InitNpm /\ [][NextNpm]_vars

InitSuggest ==
    /\ packageJson \in AnalyzerManifests
    /\ packageLockJson = [hasLockfileVersion |-> TRUE, lockfileVersion |-> 3,
                          hasPackages |-> TRUE, packages |-> <<AnalyzerRoot>>]
    /\ graph = NoGraph
    /\ cache = <<>>
    /\ scan = NoScan
    /\ conflicts = NoConflicts
    /\ applied = NotApplied
    /\ previous = NoPrevious
    /\ calls = <<>>
    /\ suggest = NoSuggestion
    /\ stats = NoStats
    /\ fix = NoFix
    /\ audit = NoAudit
    /\ typed = NoList
    /\ pc = "start"

NextSuggest ==
    \/ SuggestPackagesCall
    \/ SuggestFetchCompletes
    \/ SuggestSettles

SpecSuggest == InitSuggest /\ [][NextSuggest]_vars

InitFix ==
    /\ packageJson \in AnalyzerManifests
    /\ packageLockJson = [hasLockfileVersion |-> TRUE, lockfileVersion |-> 3,
                          hasPackages |-> TRUE, packages |-> <<AnalyzerRoot>>]
    /\ graph = NoGraph
    /\ cache = <<>>
    /\ scan = NoScan
    /\ conflicts = NoConflicts
    /\ applied = NotApplied
    /\ previous = NoPrevious
    /\ calls = <<>>
    /\ suggest = NoSuggestion
    /\ stats = NoStats
    /\ fix \in { [NoFix EXCEPT !.description = d] : d \in FixDescriptions }
    /\ audit = NoAudit
    /\ typed = NoList
    /\ pc = "start"

NextFix ==
    \/ ApplySolutionCommand
    \/ ConfirmationAnswered
    \/ BackupCompletes
    \/ ReadCompletes
    \/ WriteCompletes
    \/ InstallResolves
    \/ RestoreCompletes

SpecFix == InitFix /\ [][NextFix]_vars

InitAudit ==
    /\ packageJson \in AnalyzerManifests
    /\ packageLockJson = [hasLockfileVersion |-> TRUE, lockfileVersion |-> 3,
                          hasPackages |-> TRUE, packages |-> <<AnalyzerRoot>>]
    /\ graph = NoGraph
    /\ cache \in {<<>>, WarmCache}
    /\ scan = NoScan
    /\ conflicts = NoConflicts
    /\ applied = NotApplied
    /\ previous = NoPrevious
    /\ calls = <<>>
    /\ suggest = NoSuggestion
    /\ stats = NoStats
    /\ fix = NoFix
    /\ audit = NoAudit
    /\ typed = NoList
    /\ pc = "start"

NextAudit ==
    \/ AnalyzeExistingCall
    \/ AuditFetchCompletes
    \/ AuditSettles

SpecAudit == InitAudit /\ [][NextAudit]_vars

InitParse ==
    /\ packageJson \in AnalyzerManifests
    /\ packageLockJson = [hasLockfileVersion |-> TRUE, lockfileVersion |-> 3,
                          hasPackages |-> TRUE, packages |-> <<AnalyzerRoot>>]
    /\ graph = NoGraph
    /\ cache = <<>>
    /\ scan = NoScan
    /\ conflicts = NoConflicts
    /\ applied = NotApplied
    /\ previous = NoPrevious
    /\ calls = <<>>
    /\ suggest = NoSuggestion
    /\ stats = NoStats
    /\ fix = NoFix
    /\ audit = NoAudit
    /\ typed \in { [NoList EXCEPT !.input = i] : i \in PackageLists }
    /\ pc = "start"

NextParse == ParsePackageList

SpecParse == InitParse /\ [][NextParse]_vars

NextRescan ==
    \/ NextAnalyzer
    \/ ScanAgain

SpecRescan == InitRescan /\ [][NextRescan]_vars

\* ------------------------------------------------------------------ graph claims

Returned == pc # "start"

\* The position of the last "node_modules" token of a path (0 if none).
LastNM(path) ==
    IF \E k \in 1..Len(path) : path[k] = NM
    THEN CHOOSE k \in 1..Len(path) : path[k] = NM /\ \A j \in (k+1)..Len(path) : path[j] # NM
    ELSE 0

\* The package an installation path denotes: the text after its last "node_modules/".
InstalledPackage(path) == SubSeq(path, LastNM(path) + 2, Len(path))

\* <A> of a path <A>/node_modules/<package>; "" for a top-level installation.
InstallDir(path) == IF LastNM(path) <= 2 THEN <<>> ELSE SubSeq(path, 1, LastNM(path) - 2)

\* The children of node r that are installations of package c.
ChildrenNamed(g, r, c) ==
    { g.nodes[r].children[i] : i \in { j \in 1..Len(g.nodes[r].children) :
          InstalledPackage(g.nodes[g.nodes[r].children[j]].path) = c } }

\* Parent p requires c, has no c nested under it, and its own directory <A> has one.
HoistedCase(g, p, c) ==
    /\ g.nodes[p].path # <<>>
    /\ \E d \in 1..Len(g.nodes[p].dependencies) : g.nodes[p].dependencies[d].key = c
    /\ ~MapHas(g.allNodes, Under(g.nodes[p].path, c))
    /\ MapHas(g.allNodes, ExpectedPath(InstallDir(g.nodes[p].path), c))

\* C1: a parent at <A>/node_modules/b that requires c, with no
\* <A>/node_modules/b/node_modules/c in the lockfile but an <A>/node_modules/c,
\* has exactly the <A>/node_modules/c node linked as its child for c, at every
\* nesting depth of the parent.
C1_HoistingLinksNearestAncestor ==
    graph.status = "ok" =>
        \A p \in 1..Len(graph.nodes) : \A c \in {Name("c")} :
            HoistedCase(graph, p, c) =>
                ChildrenNamed(graph, p, c) =
                    { MapGet(graph.allNodes, ExpectedPath(InstallDir(graph.nodes[p].path), c)) }

VersionMissingOrBelow2(lock) == ~lock.hasLockfileVersion \/ lock.lockfileVersion < 2

HasRootEntry(lock) ==
    lock.hasPackages /\ \E i \in 1..Len(lock.packages) : lock.packages[i].key = <<>>

\* C2: buildGraph fails with the unsupported-format error and returns no graph
\* whenever lockfileVersion is missing or below 2, whatever the packages map holds.
C2_OldLockfileRejected ==
    (Returned /\ VersionMissingOrBelow2(packageLockJson)) =>
        /\ graph.status = "error"
        /\ graph.error = UnsupportedFormat
        /\ graph.root = 0 /\ graph.allNodes = <<>> /\ graph.nodes = <<>>

C2_Witness ==
    /\ Returned
    /\ packageLockJson.hasLockfileVersion /\ packageLockJson.lockfileVersion = 1
    /\ HasRootEntry(packageLockJson) /\ Len(packageLockJson.packages) >= 2
    /\ graph.status = "error"

\* C3: buildGraph fails with the missing-root error and returns no graph whenever
\* a lockfile of version >= 2 has no entry under the empty path, the packages map
\* being absent or empty included.
C3_MissingRootRejected ==
    (Returned /\ ~VersionMissingOrBelow2(packageLockJson) /\ ~HasRootEntry(packageLockJson)) =>
        /\ graph.status = "error"
        /\ graph.error = MissingRoot
        /\ graph.root = 0 /\ graph.allNodes = <<>> /\ graph.nodes = <<>>

C3_Witness ==
    /\ Returned
    /\ packageLockJson.hasLockfileVersion /\ packageLockJson.lockfileVersion >= 2
    /\ packageLockJson.hasPackages /\ Len(packageLockJson.packages) >= 2
    /\ ~HasRootEntry(packageLockJson)
    /\ graph.error = MissingRoot

\* The nodes reachable from the root by following children edges.
ReachableStep(g, S) ==
    S \cup UNION { { g.nodes[r].children[i] : i \in 1..Len(g.nodes[r].children) } : r \in S }

RECURSIVE Closure(_, _)
Closure(g, S) == IF ReachableStep(g, S) = S THEN S ELSE Closure(g, ReachableStep(g, S))

Reachable(g) == Closure(g, {g.root})

\* C4: in every graph buildGraph returns, allNodes maps "" to the root itself,
\* every node stored in allNodes has a path equal to its key, and every node
\* reachable from the root through children is the node allNodes stores under
\* that node's path.
C4_GraphWellFormed ==
    graph.status = "ok" =>
        /\ MapGet(graph.allNodes, <<>>) = graph.root
        /\ graph.root \in 1..Len(graph.nodes)
        /\ \A i \in 1..Len(graph.allNodes) :
               graph.nodes[graph.allNodes[i].value].path = graph.allNodes[i].key
        /\ \A r \in Reachable(graph) :
               /\ r \in 1..Len(graph.nodes)
               /\ MapGet(graph.allNodes, graph.nodes[r].path) = r

\* A graph with a node linked from two parents and a node two edges from the root.
C4_Witness ==
    /\ graph.status = "ok"
    /\ Cardinality(Reachable(graph)) >= 3
    /\ \E r \in Reachable(graph) : r # graph.root /\ Len(graph.nodes[r].children) > 0
    /\ \E r, q \in Reachable(graph) :
           /\ r # q
           /\ \E i \in 1..Len(graph.nodes[r].children), j \in 1..Len(graph.nodes[q].children) :
                  graph.nodes[r].children[i] = graph.nodes[q].children[j]

\* ------------------------------------------------------------------ analyzer claims

\* findConflicts has resolved to the list in conflicts.list.
Resolved == conflicts.status = "done"

\* The allNodes entries other than the root's.
NonRootEntries(g) == { e \in 1..Len(g.allNodes) : g.allNodes[e].key # <<>> }

\* The positions in the result of the PeerDependency conflicts for (node n, peer p).
PeerConflictsOf(n, p) ==
    { i \in 1..Len(conflicts.list) :
        /\ conflicts.list[i].type = PeerDependency
        /\ conflicts.list[i].packageName = p
        /\ conflicts.list[i].nodes[1] = n }

\* The nodes of g that are installations of package p.
InstallationsOf(g, p) ==
    { g.allNodes[e].value : e \in { f \in NonRootEntries(g) : InstalledPackage(g.allNodes[f].key) = p } }

\* Node i is the instance of p that the analyzer locates, and is an installation of p.
Located(g, p, i) ==
    /\ i # 0
    /\ i = findInstalledPeerDependency(g, p)
    /\ i \in InstallationsOf(g, p)

\* C5: for every non-root node N and every entry (P, R) of N.peerDependencies for
\* which an installed instance I of P is located, the result holds exactly one
\* PeerDependency conflict for (N, P), with nodes = [N, I], when I.version does not
\* satisfy R, and none for (N, P) when it does; no PeerDependency conflict is
\* raised for a peer entry of the root node.
C5_PeerVersionCheck ==
    Resolved =>
        /\ \A e \in NonRootEntries(graph) :
             \A d \in 1..Len(graph.nodes[graph.allNodes[e].value].peerDependencies) :
               \A i \in 1..Len(graph.nodes) :
                 Located(graph, graph.nodes[graph.allNodes[e].value].peerDependencies[d].key, i) =>
                   IF SemverSatisfies(graph.nodes[i].version,
                                      graph.nodes[graph.allNodes[e].value].peerDependencies[d].value)
                   THEN PeerConflictsOf(graph.allNodes[e].value,
                                        graph.nodes[graph.allNodes[e].value].peerDependencies[d].key) = {}
                   ELSE /\ Cardinality(PeerConflictsOf(
                              graph.allNodes[e].value,
                              graph.nodes[graph.allNodes[e].value].peerDependencies[d].key)) = 1
                        /\ \A c \in PeerConflictsOf(
                                      graph.allNodes[e].value,
                                      graph.nodes[graph.allNodes[e].value].peerDependencies[d].key) :
                               conflicts.list[c].nodes = <<graph.allNodes[e].value, i>>
        /\ \A c \in 1..Len(conflicts.list) :
               conflicts.list[c].type = PeerDependency => conflicts.list[c].nodes[1] # graph.root

\* A resolved scan of a graph where one node has a peer whose located instance
\* satisfies the range and a peer whose located instance does not, and the root
\* itself declares a peer that no installation satisfies.
C5_Witness ==
    /\ Resolved
    /\ Len(graph.nodes[graph.root].peerDependencies) > 0
    /\ \E n \in 1..Len(graph.nodes) : \E d1, d2 \in 1..Len(graph.nodes[n].peerDependencies) :
         \E i1, i2 \in 1..Len(graph.nodes) :
           /\ n # graph.root
           /\ Located(graph, graph.nodes[n].peerDependencies[d1].key, i1)
           /\ Located(graph, graph.nodes[n].peerDependencies[d2].key, i2)
           /\ SemverSatisfies(graph.nodes[i1].version, graph.nodes[n].peerDependencies[d1].value)
           /\ ~SemverSatisfies(graph.nodes[i2].version, graph.nodes[n].peerDependencies[d2].value)
           /\ \E c \in 1..Len(conflicts.list) : conflicts.list[c].nodes = <<n, i2>>

\* C6: for every non-root node N and every peer name P of N.peerDependencies such
\* that no node of the graph is an installation of P, the result holds exactly one
\* PeerDependency conflict with packageName P whose nodes list is exactly [N].
C6_MissingPeerCitesRequirerOnly ==
    Resolved =>
        \A e \in NonRootEntries(graph) :
          \A d \in 1..Len(graph.nodes[graph.allNodes[e].value].peerDependencies) :
            InstallationsOf(graph, graph.nodes[graph.allNodes[e].value].peerDependencies[d].key) = {} =>
              Cardinality({ c \in 1..Len(conflicts.list) :
                  /\ conflicts.list[c].type = PeerDependency
                  /\ conflicts.list[c].packageName =
                         graph.nodes[graph.allNodes[e].value].peerDependencies[d].key
                  /\ conflicts.list[c].nodes = <<graph.allNodes[e].value>> }) = 1

\* The major version numbers among the installations of p with a valid version.
InstalledMajors(g, p) ==
    { SemverMajor(g.nodes[r].version) :
        r \in { q \in InstallationsOf(g, p) : SemverValid(g.nodes[q].version) } }

\* The positions in the result of the DuplicateSingleton conflicts for package p.
SingletonConflictsOf(p) ==
    { i \in 1..Len(conflicts.list) :
        conflicts.list[i].type = DuplicateSingleton /\ conflicts.list[i].packageName = p }

\* The set of the nodes a conflict lists.
NodesListed(c) == { c.nodes[k] : k \in 1..Len(c.nodes) }

\* C7: for every name S of the singleton set the result holds exactly one
\* DuplicateSingleton conflict for S, listing all installed instances of S, if and
\* only if the installed instances of S have two or more distinct major versions,
\* and none for S otherwise.
C7_SingletonRule ==
    Resolved =>
        \A k \in 1..Len(SINGLETON_PACKAGES) :
            IF Cardinality(InstalledMajors(graph, SINGLETON_PACKAGES[k])) >= 2
            THEN /\ Cardinality(SingletonConflictsOf(SINGLETON_PACKAGES[k])) = 1
                 /\ \A c \in SingletonConflictsOf(SINGLETON_PACKAGES[k]) :
                        NodesListed(conflicts.list[c]) = InstallationsOf(graph, SINGLETON_PACKAGES[k])
            ELSE SingletonConflictsOf(SINGLETON_PACKAGES[k]) = {}

\* C8: findConflicts never throws or rejects, for every graph buildGraph returns
\* (nodes recorded with version "unknown" included) and every registry behaviour.
C8_FindConflictsNeverRejects == conflicts.status # "threw" /\ pc # "rejected"

\* C9: the description of every Solution of every conflict findConflicts returns
\* is parsed by parseSolutionDescription to a non-null result whose packageName and
\* newVersion are the package and the target version of the solution.
C9_DescriptionsParseBack ==
    Resolved =>
        \A c \in 1..Len(conflicts.list) : \A k \in 1..Len(conflicts.list[c].solutions) :
            /\ parseSolutionDescription(conflicts.list[c].solutions[k].description).found
            /\ parseSolutionDescription(conflicts.list[c].solutions[k].description).packageName
                   = conflicts.list[c].solutions[k].action.packageName
            /\ parseSolutionDescription(conflicts.list[c].solutions[k].description).newVersion
                   = <<conflicts.list[c].solutions[k].action.version>>

\* The position of node r in the iteration order of allNodes.
EntryOf(g, r) == CHOOSE e \in 1..Len(g.allNodes) : g.allNodes[e].value = r

\* The position of peer p among the peerDependencies entries of node r.
PeerEntryOf(g, r, p) ==
    CHOOSE d \in 1..Len(g.nodes[r].peerDependencies) : g.nodes[r].peerDependencies[d].key = p

\* The position of package p in the singleton list.
SingletonIndex(p) == CHOOSE k \in 1..Len(SINGLETON_PACKAGES) : SINGLETON_PACKAGES[k] = p

\* Where the claimed order puts a conflict: peer conflicts first, by requiring node
\* and peer entry; singleton conflicts after them, by singleton index.
Rank(g, c) ==
    IF c.type = PeerDependency
    THEN <<1, EntryOf(g, c.nodes[1]), PeerEntryOf(g, c.nodes[1], c.packageName)>>
    ELSE <<2, SingletonIndex(c.packageName), 0>>

Before(a, b) ==
    \/ a[1] < b[1]
    \/ a[1] = b[1] /\ a[2] < b[2]
    \/ a[1] = b[1] /\ a[2] = b[2] /\ a[3] < b[3]

\* C10: in the list findConflicts returns every PeerDependency conflict precedes
\* every DuplicateSingleton conflict, peer conflicts are in allNodes order of the
\* requiring node and, per node, in the order of its peerDependencies entries, and
\* singleton conflicts are in the order of the singleton list.
C10_ConflictOrder ==
    Resolved =>
        \A i, j \in 1..Len(conflicts.list) :
            i < j => Before(Rank(graph, conflicts.list[i]), Rank(graph, conflicts.list[j]))

\* A result with peer conflicts of two requiring nodes, two peer conflicts of one
\* node, and two singleton conflicts.
C10_Witness ==
    /\ Resolved
    /\ \E i, j \in 1..Len(conflicts.list) :
         /\ conflicts.list[i].type = PeerDependency /\ conflicts.list[j].type = PeerDependency
         /\ conflicts.list[i].nodes[1] # conflicts.list[j].nodes[1]
    /\ \E i, j \in 1..Len(conflicts.list) :
         /\ i # j
         /\ conflicts.list[i].type = PeerDependency /\ conflicts.list[j].type = PeerDependency
         /\ conflicts.list[i].nodes[1] = conflicts.list[j].nodes[1]
    /\ \E i, j \in 1..Len(conflicts.list) :
         /\ i # j
         /\ conflicts.list[i].type = DuplicateSingleton
         /\ conflicts.list[j].type = DuplicateSingleton

\* What two conflict lists are compared on: type, packageName, message, the paths
\* of the cited nodes in order, and the solution descriptions in order.
ConflictView(g, c) ==
    [type |-> c.type, packageName |-> c.packageName, message |-> c.message,
     paths |-> [k \in 1..Len(c.nodes) |-> g.nodes[c.nodes[k]].path],
     descriptions |-> [k \in 1..Len(c.solutions) |-> c.solutions[k].description]]

ListView(g, list) == [i \in 1..Len(list) |-> ConflictView(g, list[i])]

\* The packages a resolved findConflicts call consulted the registry for.
ConsultedFor(list) == { list[i].packageName : i \in 1..Len(list) }

\* Two findConflicts calls on the graph have resolved, both started with the same
\* cache, which held every package they consult.
TwoRunsOnFrozenCache ==
    /\ pc = "analyzed"
    /\ Resolved
    /\ previous.status = "done"
    /\ previous.startCache = scan.startCache
    /\ \A n \in ConsultedFor(previous.list) \cup ConsultedFor(conflicts.list) :
           MapHas(scan.startCache, n)

CallStep == Len(calls') = Len(calls) + 1

\* The step completes call k with a registry response.
SettleStep(k) == calls[k].state = "fetching" /\ calls'[k].state = "returned"

\* The outcomes in which the registry gives no document.
FailedOutcomes == {"notFound", "httpError", "invalidBody", "networkFailure"}

\* Every key of the cache keeps its document through the step.
CacheKept ==
    \A i \in 1..Len(cache) :
        /\ MapHas(cache', cache[i].key)
        /\ cache'[MapIndex(cache', cache[i].key)].value = cache[i].value

\* C12: a call that completes with a successful response stores the document under
\* its name; while a name is cached every getPackageInfo for it returns the cached
\* document and issues no request; and no step other than clearCache (a call for
\* another name, a failed fetch, an abandoned call) removes or replaces a key.
C12_CacheMemoizes ==
    [][ /\ \A k \in 1..Len(calls) :
             (SettleStep(k) /\ calls'[k].outcome = "ok") =>
                 /\ MapHas(cache', calls[k].name)
                 /\ cache'[MapIndex(cache', calls[k].name)].value = calls'[k].doc
        /\ (CallStep /\ MapHas(cache, calls'[Len(calls')].name)) =>
               /\ calls'[Len(calls')].state = "returned"
               /\ ~calls'[Len(calls')].requested
               /\ calls'[Len(calls')].found
               /\ calls'[Len(calls')].doc = cache[MapIndex(cache, calls'[Len(calls')].name)].value
        /\ (ClearCache \/ CacheKept) ]_vars

\* A name fetched successfully, then a failed fetch for another name and an
\* abandoned call, then a call for the first name answered from the cache.
C12_Witness ==
    \E i, j, k \in 1..Len(calls) :
        /\ i < j /\ j < k
        /\ calls[i].state = "returned" /\ calls[i].outcome = "ok"
        /\ calls[j].name # calls[i].name /\ calls[j].abandoned
        /\ calls[j].state = "returned" /\ calls[j].outcome \in FailedOutcomes
        /\ calls[k].name = calls[i].name
        /\ calls[k].state = "returned" /\ ~calls[k].requested /\ calls[k].found
        /\ Len(cache) = 1

\* C13: a getPackageInfo call whose request is answered 404 or with another
\* non-success status, whose body does not parse, or whose request fails,
\* resolves to null and leaves the cache unchanged; nothing is stored for the
\* name, so a call for a name the cache does not hold issues a new request.
C13_SoftFailure ==
    [][ /\ \A k \in 1..Len(calls) :
             (SettleStep(k) /\ calls'[k].outcome \in FailedOutcomes) =>
                 /\ ~calls'[k].found
                 /\ calls'[k].doc = NoDocument
                 /\ cache' = cache
        /\ \A k \in 1..Len(calls) : SettleStep(k) => calls'[k].outcome \in FetchOutcomes
        /\ (CallStep /\ ~MapHas(cache, calls'[Len(calls')].name)) =>
               /\ calls'[Len(calls')].state = "fetching"
               /\ calls'[Len(calls')].requested ]_vars

\* A call that failed, and a later call for the same name that was sent to the
\* registry again.
C13_Witness ==
    \E i, j \in 1..Len(calls) :
        /\ i < j
        /\ calls[i].name = calls[j].name
        /\ calls[i].state = "returned" /\ calls[i].outcome \in FailedOutcomes /\ ~calls[i].found
        /\ calls[j].requested
        /\ ~MapHas(cache, calls[i].name)

\* ------------------------------------------------------------------ suggestion claims

\* suggestCompatiblePackages has resolved to suggest.result.
Suggestions == suggest.result.suggestions

SuggestionDone == suggest.status = "done"

\* C14: whenever the result has compatible = true, for every suggestion S and
\* every peer-dependency entry (P, R) declared by S, if P is itself among the
\* suggestions then P's suggestedVersion satisfies R.
C14_JointlySatisfiable ==
    (SuggestionDone /\ suggest.result.compatible) =>
        \A i, j \in 1..Len(Suggestions) :
            \A d \in 1..Len(Suggestions[i].peerDependencies) :
                Suggestions[j].packageName = Suggestions[i].peerDependencies[d].key =>
                    SemverSatisfies(Suggestions[j].suggestedVersion,
                                    Suggestions[i].peerDependencies[d].value)

\* The registry gives the package a document with a latest version.
Resolvable(packageName) ==
    /\ RegistryHas(packageName)
    /\ RegistryDoc(packageName).distTags
    /\ RegistryDoc(packageName).latest # ""

\* The outcomes of the lookups of the requested packages, in request order: a
\* package already held (in the cache at the start, or fetched with success
\* earlier in the call) is found, any other consumes the next fetch.
RECURSIVE LookupOutcomes(_, _, _)
LookupOutcomes(request, held, fetches) ==
    IF request = <<>> THEN <<>>
    ELSE IF Head(request) \in held
    THEN <<TRUE>> \o LookupOutcomes(Tail(request), held, fetches)
    ELSE IF fetches = <<>>
    THEN <<FALSE>> \o LookupOutcomes(Tail(request), held, fetches)
    ELSE <<Head(fetches)>>
             \o LookupOutcomes(Tail(request),
                               IF Head(fetches) THEN held \cup {Head(request)} ELSE held,
                               Tail(fetches))

\* Requested package i was looked up with success.
LookedUp(i) ==
    LookupOutcomes(suggest.request,
                   { n \in RequestNames : MapHas(suggest.startCache, n) },
                   suggest.fetched)[i]

\* The ranges for peer p contributed by the latest versions of the requested
\* packages that were looked up.
ContributedRanges(p) ==
    UNION { { PeersOfLatest(RegistryDoc(suggest.request[i]))[d].value :
                d \in { e \in 1..Len(PeersOfLatest(RegistryDoc(suggest.request[i]))) :
                           PeersOfLatest(RegistryDoc(suggest.request[i]))[e].key = p } } :
            i \in { k \in 1..Len(suggest.request) :
                      LookedUp(k) /\ Resolvable(suggest.request[k]) } }

\* No registry version of p satisfies every range of the set.
Unsatisfiable(p, ranges) ==
    \A v \in 1..Len(RegistryDoc(p).versions) :
        \E r \in ranges : ~SemverSatisfies(RegistryDoc(p).versions[v].key, r)

\* The message names p and each of the ranges.
Names(message, p, ranges) ==
    /\ \E k \in 1..Len(message) : SubSeq(message, k, k + Len(p) - 1) = p
    /\ \A r \in ranges : \E k \in 1..Len(message) : message[k] = r

\* The peer names the model's packages declare.
PeerNames == { Name("react") }

\* C15: for every peer name P for which the latest versions of the requested
\* packages contribute two or more distinct ranges that no registry version of P
\* satisfies together, the conflicts list holds a message naming P and the ranges,
\* compatible is false, and no suggestion for P is added on behalf of a range.
C15_ConflictingRangesReported ==
    SuggestionDone =>
        \A p \in PeerNames :
            (Cardinality(ContributedRanges(p)) >= 2 /\ Unsatisfiable(p, ContributedRanges(p))) =>
                /\ \E c \in 1..Len(suggest.result.conflicts) :
                       Names(suggest.result.conflicts[c], p, ContributedRanges(p))
                /\ ~suggest.result.compatible
                /\ \A i \in 1..Len(Suggestions) :
                       Suggestions[i].packageName = p =>
                           Suggestions[i].reason # "Required peer dependency"

\* The suggestions made for requested packages, and the conflict entries for
\* requested packages that were not found or have no latest version.
RequestedSuggestions == SelectSeq(Suggestions, LAMBDA x : x.reason = "Latest stable version")

FailureEntries(packageName) ==
    { c \in 1..Len(suggest.result.conflicts) :
        suggest.result.conflicts[c] \in {NotFoundText(packageName), NoLatestText(packageName)} }

\* The requested packages that were found with a latest version, in order.
RECURSIVE FoundWithLatest(_)
FoundWithLatest(i) ==
    IF i > Len(suggest.request) THEN <<>>
    ELSE (IF LookedUp(i) /\ Resolvable(suggest.request[i])
          THEN <<suggest.request[i]>> ELSE <<>>) \o FoundWithLatest(i + 1)

Occurrences(request, packageName) == { i \in 1..Len(request) : request[i] = packageName }

\* C16: the call resolves; each requested package that is not found or has no
\* latest dist-tag contributes one entry to conflicts, and every other requested
\* package is in suggestions at its latest version, in request order, whatever
\* happened to the packages before and after it.
C16_FailuresDoNotStopTheRest ==
    SuggestionDone =>
        /\ Len(RequestedSuggestions) = Len(FoundWithLatest(1))
        /\ \A k \in 1..Len(RequestedSuggestions) :
               /\ RequestedSuggestions[k].packageName = FoundWithLatest(1)[k]
               /\ RequestedSuggestions[k].suggestedVersion
                      = RegistryDoc(RequestedSuggestions[k].packageName).latest
        /\ \A n \in RequestNames :
               Cardinality(FailureEntries(n))
                   = Cardinality({ i \in Occurrences(suggest.request, n) :
                                     ~(LookedUp(i) /\ Resolvable(n)) })

\* The words of a text, split at single spaces.
RECURSIVE SplitWords(_, _)
SplitWords(text, word) ==
    IF text = <<>> THEN <<word>>
    ELSE IF Head(text) = " " THEN <<word>> \o SplitWords(Tail(text), <<>>)
    ELSE SplitWords(Tail(text), Append(word, Head(text)))

\* C17: installCommand is empty exactly when suggestions is empty; otherwise it is
\* the install verb followed by one name@suggestedVersion token per suggestion,
\* space-separated, in suggestion order; and it is produced only when no requested
\* package was recorded as not found or without latest version.
C17_InstallCommand ==
    SuggestionDone =>
        /\ (suggest.result.installCommand = <<>>) <=> (Suggestions = <<>>)
        /\ Suggestions # <<>> =>
               /\ Len(SplitWords(suggest.result.installCommand, <<>>)) = Len(Suggestions) + 2
               /\ SplitWords(suggest.result.installCommand, <<>>)[1] = <<"npm">>
               /\ SplitWords(suggest.result.installCommand, <<>>)[2] = <<"install">>
               /\ \A k \in 1..Len(Suggestions) :
                      SplitWords(suggest.result.installCommand, <<>>)[k + 2]
                          = Suggestions[k].packageName \o <<"@", Suggestions[k].suggestedVersion>>
        /\ suggest.result.installCommand # <<>> =>
               \A n \in RequestNames : FailureEntries(n) = {}

\* ------------------------------------------------------------------ node fields and statistics

\* The node built for entry i of allNodes.
NodeOfEntry(i) == graph.nodes[graph.allNodes[i].value]

\* C18: for every non-root lockfile entry, the name of the node built for it is
\* the package its installation path denotes: the whole text after the last
\* "node_modules/" of the path, the @scope/ prefix of a scoped package included.
C18_NameIsInstalledPackage ==
    graph.status = "ok" =>
        \A i \in 1..Len(graph.allNodes) :
            graph.allNodes[i].key # <<>> =>
                NodeOfEntry(i).name = InstalledPackage(graph.allNodes[i].key)

\* The path is one node_modules/<package> pair below the root.
DirectInstallation(path) == path # <<>> /\ LastNM(path) = 1

\* C19: a node has isDev = true exactly when it is a direct top-level
\* installation and its package name is a key of the manifest's
\* devDependencies; the root node and every nested node have isDev = false.
C19_IsDevOnlyDirectDevDependency ==
    graph.status = "ok" =>
        \A i \in 1..Len(graph.allNodes) :
            NodeOfEntry(i).isDev
                <=> /\ DirectInstallation(graph.allNodes[i].key)
                    /\ MapHas(packageJson.devDependencies,
                              InstalledPackage(graph.allNodes[i].key))

\* depth(leaf) = 0, depth(node) = 1 + max over children of depth(child); steps
\* bounds the unfolding, which suffices when no children-path repeats a node.
RECURSIVE Depth(_, _, _)
Depth(heap, node, steps) ==
    IF heap[node].children = <<>> \/ steps = 0 THEN 0
    ELSE 1 + CHOOSE m \in 0..Len(heap) :
                 /\ \E k \in 1..Len(heap[node].children) :
                        Depth(heap, heap[node].children[k], steps - 1) = m
                 /\ \A k \in 1..Len(heap[node].children) :
                        Depth(heap, heap[node].children[k], steps - 1) <= m

\* C20: in the result of getGraphStats, totalNodes is the number of entries of
\* allNodes and maxDepth is the value of the depth recursion at the root; a graph
\* holding only the root yields 1, 0, 0, 0; and always
\* devDependencies <= directDependencies <= totalNodes - 1.
C20_GraphStats ==
    stats.status = "ok" =>
        /\ stats.totalNodes = Len(graph.allNodes)
        /\ stats.maxDepth = Depth(graph.nodes, graph.root, Len(graph.nodes))
        /\ Len(graph.allNodes) = 1 =>
               /\ stats.totalNodes = 1
               /\ stats.directDependencies = 0
               /\ stats.devDependencies = 0
               /\ stats.maxDepth = 0
        /\ stats.devDependencies <= stats.directDependencies
        /\ stats.directDependencies <= stats.totalNodes - 1

C20_Witness ==
    /\ stats.status = "ok"
    /\ stats.maxDepth >= 2
    /\ stats.devDependencies >= 1
    /\ stats.directDependencies > stats.devDependencies

\* ------------------------------------------------------------------ fix claims

\* Tokens i..j of d are a non-empty run of whitespace; a non-empty text without
\* a line terminator.
Blank(d, i, j) == i <= j /\ \A k \in i..j : d[k] \in Whitespace

OneLine(d, i, j) == i <= j /\ \A k \in i..j : d[k] # "\n"

\* d holds "Upgrade|Downgrade <name> from <text> to <version>" up to its end.
MatchesUpgradeTemplate(d) ==
    \E u, f, t \in 1..Len(d) :
        /\ d[u] \in {"Upgrade", "Downgrade"} /\ d[f] = "from" /\ d[t] = "to"
        /\ u < f /\ f < t
        /\ \E a \in (u + 2)..(f - 2), b \in (u + 3)..(f - 1) :
               Blank(d, u + 1, a - 1) /\ OneLine(d, a, b - 1) /\ Blank(d, b, f - 1)
        /\ \E a \in (f + 2)..(t - 2), b \in (f + 3)..(t - 1) :
               Blank(d, f + 1, a - 1) /\ OneLine(d, a, b - 1) /\ Blank(d, b, t - 1)
        /\ \E a \in (t + 2)..Len(d) :
               Blank(d, t + 1, a - 1) /\ OneLine(d, a, Len(d))

\* d holds "Install <name>@<version>" followed by whitespace.
MatchesInstallTemplate(d) ==
    \E i, at, e \in 1..Len(d) :
        /\ d[i] = "Install" /\ d[at] = "@" /\ d[e] \in Whitespace
        /\ i < at /\ at < e
        /\ \E a \in (i + 2)..(at - 1) : Blank(d, i + 1, a - 1) /\ OneLine(d, a, at - 1)
        /\ OneLine(d, at + 1, e - 1)

\* C21: parseSolutionDescription returns a record or null for every input; it
\* returns null for every string that matches neither the Upgrade/Downgrade
\* template nor the Install template, and then the applySolution command applies
\* no fix: package.json is not touched and npm install is not run.
C21_UnparseableAppliesNothing ==
    fix.runs > 0 =>
        /\ fix.details.found <=> (MatchesUpgradeTemplate(fix.description)
                                    \/ MatchesInstallTemplate(fix.description))
        /\ ~fix.details.found =>
               /\ fix.pc = "done" /\ fix.outcome = "unparseable"
               /\ fix.file = OriginalContent
               /\ fix.backupPath = 0
               /\ fix.installs = 0

C21_Witness ==
    /\ fix.runs = 2
    /\ ~fix.details.found
    /\ Len(fix.description) > 6
    /\ \E k \in 1..Len(fix.description) : fix.description[k] = "@"

\* What a step of applyDependencyFix must respect, apart from the restoration.
FixStepOrdered ==
    /\ fix'.file # fix.file => (fix.backupPath # 0 /\ fix.backupPath = fix.runs)
    /\ fix'.installs > fix.installs => (fix'.written /\ fix'.file = Written(fix.runs))
    /\ (fix.pc = "backup" /\ fix'.backupPath = 0) =>
           (fix'.file = fix.file /\ fix'.installs = fix.installs /\ fix'.pc = "done")
    /\ (fix.pc \notin {"idle", "done", "confirm"} /\ fix'.pc = "done") =>
           fix'.result.message # ""
    /\ fix'.result.success => fix'.result.backupPath # 0

\* The install step reported failure and package.json has the content of the backup.
RestoredAfterFailedInstall ==
    fix'.result.message = "Failed to run npm install" => fix'.file = fix'.backupContent

\* C29: package.json is written only after a backup was made in the same
\* invocation, npm install is started only after the write succeeded, a failed
\* backup leaves package.json unchanged and starts no install, a failed install
\* has package.json restored from the backup, the call always resolves to a
\* FixResult, and success = true implies that backupPath is set.
C29_FixStepOrdering == [][FixStepOrdered /\ RestoredAfterFailedInstall]_vars

\* The same without the restoration.
FixStepsOrdered == [][FixStepOrdered]_vars

\* ------------------------------------------------------------------ audit claims

\* The merged dependency map of the audited manifest: its names, and the
\* current version of each (the devDependencies entry wins).
AuditedNames ==
    { audit.packageJson.dependencies[i].key : i \in 1..Len(audit.packageJson.dependencies) }
        \cup { audit.packageJson.devDependencies[i].key :
                 i \in 1..Len(audit.packageJson.devDependencies) }

CurrentVersion(n) ==
    IF MapHas(audit.packageJson.devDependencies, n)
    THEN audit.packageJson.devDependencies[MapIndex(audit.packageJson.devDependencies, n)].value
    ELSE audit.packageJson.dependencies[MapIndex(audit.packageJson.dependencies, n)].value

\* The major of the current version of n is lower than the major of the
\* registry's latest version of n.
MajorBehind(n) ==
    /\ Resolvable(n)
    /\ SemverCoerce(CurrentVersion(n)) # <<>>
    /\ SemverCoerce(CurrentVersion(n))[1] < SemverMajor(RegistryDoc(n).latest)

IssuesFor(n) ==
    { i \in 1..Len(audit.result.issues) : audit.result.issues[i].packageName = n }

RecommendationsFor(n) ==
    { i \in 1..Len(audit.result.recommendations) :
        audit.result.recommendations[i].packageName = n }

FailedFetches == { i \in 1..Len(audit.fetched) : ~audit.fetched[i] }

\* C22: the audit records exactly one issue and one recommendation, suggesting
\* the registry's latest version, for each package of the merged map whose
\* current major is lower than the major of the registry's latest version, and
\* none for any other package; failed is the set of packages whose lookup failed.
C22_AuditFlagsMajorBehind ==
    audit.status = "done" =>
        \E failed \in SUBSET AuditedNames :
            /\ Cardinality(failed) = Cardinality(FailedFetches)
            /\ \A n \in failed : ~MapHas(cache, n)
            /\ \A n \in AuditedNames :
                   /\ Cardinality(IssuesFor(n)) = IF MajorBehind(n) /\ n \notin failed THEN 1 ELSE 0
                   /\ Cardinality(RecommendationsFor(n)) = Cardinality(IssuesFor(n))
                   /\ \A i \in RecommendationsFor(n) :
                          audit.result.recommendations[i].suggestedVersion = RegistryDoc(n).latest
            /\ \A i \in 1..Len(audit.result.issues) :
                   audit.result.issues[i].packageName \in AuditedNames

\* ------------------------------------------------------------------ package list claims

\* The items of a comma-separated text, each without its surrounding whitespace.
Commas(text) == { k \in 0..(Len(text) + 1) : k = 0 \/ k = Len(text) + 1 \/ text[k] = "," }

ItemEnding(text, k) ==
    Trim(SubSeq(text,
                1 + CHOOSE j \in Commas(text) : j < k /\ \A i \in Commas(text) : i < k => i <= j,
                k - 1))

\* The items that are not blank, in order.
RECURSIVE ItemsFrom(_, _)
ItemsFrom(text, k) ==
    IF k > Len(text) + 1 THEN <<>>
    ELSE (IF k \in Commas(text) /\ ItemEnding(text, k) # <<>>
          THEN <<ItemEnding(text, k)>> ELSE <<>>) \o ItemsFrom(text, k + 1)

\* An item without its @version specifier: the text up to the first "@" that is
\* not the first token of the item.
NameOfItem(item) ==
    IF \E k \in 2..Len(item) : item[k] = "@"
    THEN SubSeq(item, 1, (CHOOSE k \in 2..Len(item) :
                              item[k] = "@" /\ \A j \in 2..(k - 1) : item[j] # "@") - 1)
    ELSE item

\* C30: each returned element is a non-empty package name, equal to the
\* corresponding input item with surrounding whitespace and any trailing
\* @version specifier removed ("@scope/pkg@1.0.0" and "@scope/pkg" give
\* "@scope/pkg"); blank items are dropped.
C30_PackageListParsed ==
    typed.parsed =>
        /\ Len(typed.packageNames) = Len(ItemsFrom(typed.input, 1))
        /\ \A i \in 1..Len(typed.packageNames) :
               /\ typed.packageNames[i] # <<>>
               /\ typed.packageNames[i] = NameOfItem(ItemsFrom(typed.input, 1)[i])

\* ------------------------------------------------------------------ solution claims

\* What conflict detection is compared on: type, packageName and the paths of the
\* cited nodes, in order.
DetectionView(g, list) ==
    [i \in 1..Len(list) |->
        [type |-> list[i].type, packageName |-> list[i].packageName,
         paths |-> [k \in 1..Len(list[i].nodes) |-> g.nodes[list[i].nodes[k]].path]]]

\* The number of peerDependencies entries of the nodes from ref on.
RECURSIVE PeerEntryCount(_, _)
PeerEntryCount(g, ref) ==
    IF ref > Len(g.nodes) THEN 0
    ELSE Len(g.nodes[ref].peerDependencies) + PeerEntryCount(g, ref + 1)

\* The scan of g against an empty cache and a registry no lookup of which
\* succeeds: two lookups at most per peer entry, one per singleton package.
Offline(g) ==
    findConflicts(g, <<>>,
                  [i \in 1..(2 * PeerEntryCount(g, 1) + Len(SINGLETON_PACKAGES)) |-> FALSE])

\* C23: the conflicts a scan of a graph resolves to, compared on type, packageName
\* and cited node paths in order, are those of the scan of the same graph during
\* which every registry lookup fails, whatever the registry answered and whatever
\* the cache held; a lookup that fails removes or changes no conflict.
C23_DetectionIgnoresRegistry ==
    Resolved =>
        /\ Offline(graph).status = "done"
        /\ DetectionView(graph, conflicts.list) = DetectionView(graph, Offline(graph).conflicts)

\* A resolved scan during which one lookup failed and another succeeded, with a
\* conflict left without solutions and a conflict that has some.
C23_Witness ==
    /\ Resolved
    /\ \E i, j \in 1..Len(scan.fetched) : scan.fetched[i] /\ ~scan.fetched[j]
    /\ \E c, d \in 1..Len(conflicts.list) :
         /\ conflicts.list[c].solutions = <<>>
         /\ conflicts.list[d].solutions # <<>>

\* Every fetch the scan has made returned a document.
AllFetched == \A i \in 1..Len(scan.fetched) : scan.fetched[i]

\* The positions in the result of the conflicts for a peer that is not installed,
\* and of those for a peer installed in a version outside the range.
MissingPeerConflicts ==
    { c \in 1..Len(conflicts.list) :
        conflicts.list[c].type = PeerDependency /\ Len(conflicts.list[c].nodes) = 1 }
PeerVersionConflicts ==
    { c \in 1..Len(conflicts.list) :
        conflicts.list[c].type = PeerDependency /\ Len(conflicts.list[c].nodes) = 2 }

\* The range R that the requiring node of conflict c declares for the peer.
RequiredRange(g, c) ==
    g.nodes[c.nodes[1]].peerDependencies[
        CHOOSE d \in 1..Len(g.nodes[c.nodes[1]].peerDependencies) :
            g.nodes[c.nodes[1]].peerDependencies[d].key = c.packageName].value

\* The versions of P in the registry that satisfy R, and the greatest of a set.
SatisfyingVersions(packageName, range) ==
    { RegistryDoc(packageName).versions[i].key : i \in
        { j \in 1..Len(RegistryDoc(packageName).versions) :
            SemverSatisfies(RegistryDoc(packageName).versions[j].key, range) } }
GreatestOf(versions) == CHOOSE v \in versions : \A w \in versions : SemverCompare(v, w) >= 0

\* C24: in a resolved scan all of whose lookups succeeded, a conflict for a
\* missing peer P required in range R, some registry version of P satisfying R,
\* has exactly one solution, the Install solution for the greatest satisfying
\* version; the "install latest" solution appears only when no version satisfies R.
C24_MissingPeerSolutions ==
    (Resolved /\ AllFetched) =>
        \A c \in MissingPeerConflicts :
            SatisfyingVersions(conflicts.list[c].packageName,
                               RequiredRange(graph, conflicts.list[c])) # {} =>
                conflicts.list[c].solutions =
                    <<Solution(InstallCompatibleText(
                                   conflicts.list[c].packageName,
                                   GreatestOf(SatisfyingVersions(
                                       conflicts.list[c].packageName,
                                       RequiredRange(graph, conflicts.list[c])))),
                               conflicts.list[c].packageName,
                               GreatestOf(SatisfyingVersions(
                                   conflicts.list[c].packageName,
                                   RequiredRange(graph, conflicts.list[c]))))>>

\* The part of C24 the code keeps: the first solution is the Install solution for
\* the greatest satisfying version.
MissingPeerFirstSolution ==
    (Resolved /\ AllFetched) =>
        \A c \in MissingPeerConflicts :
            SatisfyingVersions(conflicts.list[c].packageName,
                               RequiredRange(graph, conflicts.list[c])) # {} =>
                /\ Len(conflicts.list[c].solutions) >= 1
                /\ conflicts.list[c].solutions[1] =
                    Solution(InstallCompatibleText(
                                 conflicts.list[c].packageName,
                                 GreatestOf(SatisfyingVersions(
                                     conflicts.list[c].packageName,
                                     RequiredRange(graph, conflicts.list[c])))),
                             conflicts.list[c].packageName,
                             GreatestOf(SatisfyingVersions(
                                 conflicts.list[c].packageName,
                                 RequiredRange(graph, conflicts.list[c]))))

\* The version of the installed peer that conflict c cites.
InstalledVersion(g, c) == g.nodes[c.nodes[2]].version

\* The solutions the claim allows for a peer P installed in version V outside R,
\* B being the greatest registry version that satisfies R.
ExpectedPeerVersionSolutions(packageName, range, installedVersion) ==
    IF SatisfyingVersions(packageName, range) = {} THEN <<>>
    ELSE IF SemverGt(GreatestOf(SatisfyingVersions(packageName, range)), installedVersion)
    THEN <<Solution(UpgradeText(packageName, installedVersion,
                                GreatestOf(SatisfyingVersions(packageName, range))),
                    packageName, GreatestOf(SatisfyingVersions(packageName, range)))>>
    ELSE IF SemverLt(GreatestOf(SatisfyingVersions(packageName, range)), installedVersion)
    THEN <<Solution(DowngradeText(packageName, installedVersion,
                                  GreatestOf(SatisfyingVersions(packageName, range))),
                    packageName, GreatestOf(SatisfyingVersions(packageName, range)))>>
    ELSE <<>>

SingletonConflicts ==
    { c \in 1..Len(conflicts.list) : conflicts.list[c].type = DuplicateSingleton }

\* The highest of the installed versions that conflict c cites.
HighestInstalled(g, c) == GreatestOf({ g.nodes[c.nodes[k]].version : k \in 1..Len(c.nodes) })

\* The version the registry document of a package tags as latest ("" for none).
RegistryLatest(packageName) ==
    IF RegistryDoc(packageName).distTags THEN RegistryDoc(packageName).latest ELSE ""

\* The registry's latest version of the package of conflict c is strictly
\* greater than the highest installed one.
NewerPublished(g, c) ==
    /\ RegistryLatest(c.packageName) # ""
    /\ SemverGt(RegistryLatest(c.packageName), HighestInstalled(g, c))

\* C26: in a resolved scan every duplicate-singleton conflict has one or two
\* solutions; the first is the consolidation to the highest installed version;
\* a second one is the upgrade of all to the registry's latest version, present
\* only when the package's document was obtained and latest is strictly greater
\* than the highest installed version, and always present then when every lookup
\* succeeded.
C26_SingletonSolutions ==
    Resolved =>
        \A c \in SingletonConflicts :
            /\ Len(conflicts.list[c].solutions) \in {1, 2}
            /\ conflicts.list[c].solutions[1] =
                   Solution(ConsolidateText(conflicts.list[c].packageName,
                                            HighestInstalled(graph, conflicts.list[c])),
                            conflicts.list[c].packageName,
                            HighestInstalled(graph, conflicts.list[c]))
            /\ Len(conflicts.list[c].solutions) = 2 =>
                   /\ MapHas(cache, conflicts.list[c].packageName)
                   /\ NewerPublished(graph, conflicts.list[c])
                   /\ conflicts.list[c].solutions[2] =
                          Solution(UpgradeAllText(conflicts.list[c].packageName,
                                                  RegistryLatest(conflicts.list[c].packageName)),
                                   conflicts.list[c].packageName,
                                   RegistryLatest(conflicts.list[c].packageName))
            /\ (AllFetched /\ MapHas(cache, conflicts.list[c].packageName)
                           /\ NewerPublished(graph, conflicts.list[c])) =>
                   Len(conflicts.list[c].solutions) = 2

\* A resolved scan whose result holds a singleton conflict with both solutions
\* and one with the consolidation alone although the lookup succeeded.
C26_Witness ==
    /\ Resolved
    /\ AllFetched
    /\ \E c, d \in SingletonConflicts :
         /\ Len(conflicts.list[c].solutions) = 2
         /\ Len(conflicts.list[d].solutions) = 1
         /\ MapHas(cache, conflicts.list[d].packageName)

\* ------------------------------------------------------------------ concurrency claims

\* Every key of the cache maps to the document the registry holds for that very
\* name, whole, and some call for the name was answered with it; no key is held twice.
CacheSound ==
    /\ \A i \in 1..Len(cache) :
         /\ RegistryHas(cache[i].key)
         /\ cache[i].value # NoDocument
         /\ cache[i].value.name = cache[i].key
         /\ cache[i].value = RegistryDoc(cache[i].key)
         /\ \E k \in 1..Len(calls) :
              /\ calls[k].name = cache[i].key
              /\ calls[k].state = "returned"
              /\ calls[k].outcome = "ok"
    /\ \A i, j \in 1..Len(cache) : cache[i].key = cache[j].key => i = j

\* Every call that has returned returned null or the document of its own name.
CallsSound ==
    \A k \in 1..Len(calls) :
        calls[k].state = "returned" =>
            \/ ~calls[k].found /\ calls[k].doc = NoDocument
            \/ /\ calls[k].found
               /\ calls[k].doc.name = calls[k].name
               /\ calls[k].doc = RegistryDoc(calls[k].name)

\* C27: under every interleaving of getPackageInfo calls, completions (each
\* succeeding or failing on its own), abandonments and clearCache, the cache maps
\* each key to the whole document the registry returned for that same name,
\* never to null or to another package's document, and every call that has
\* returned returned null or the document of its own name.
C27_CacheUnderConcurrency == CacheSound /\ CallsSound

\* Two calls for the same name were in flight together, both sent a request and
\* both were answered with the document, which the cache holds once; a call for
\* another name failed in between.
C27_Witness ==
    \E i, j, k \in 1..Len(calls) :
        /\ i # j
        /\ calls[i].name = calls[j].name
        /\ calls[i].requested /\ calls[j].requested
        /\ calls[i].state = "returned" /\ calls[i].outcome = "ok"
        /\ calls[j].state = "returned" /\ calls[j].outcome = "ok"
        /\ calls[k].name # calls[i].name
        /\ calls[k].state = "returned" /\ ~calls[k].found
        /\ Len(cache) = 1
        /\ cache[1].key = calls[i].name

\* ------------------------------------------------------------------ termination claims

\* C28: getGraphStats returns a result for every graph buildGraph returns: the
\* depth computation, walking the children of the root, never comes back to a
\* node it is still inside of.
C28_GetGraphStatsReturns == pc = "counted" => stats.status = "ok"

====
